---- MODULE Spec2Model ----
(***************************************************************************)
(* Rate-Limiting-API: the leaky bucket and the token bucket over a shared  *)
(* key-value store with expiry, and the LimiterManager that switches       *)
(* between them at run time.                                               *)
(*                                                                         *)
(* Numbers.  Capacity, rate, water level and token count are float64 in    *)
(* the code.  The model counts them in halves (Scale halves make 1.0), so  *)
(* 2.5 is 5; every value the model produces is a small multiple of 0.5,    *)
(* which float64 represents and adds exactly.  Stored values are the       *)
(* decimal strings the code writes, as sequences of characters.            *)
(*                                                                         *)
(* Time.  clock counts ticks of 1/TicksPerSec second; time.Now().Unix()    *)
(* is the clock truncated to whole seconds.                                *)
(***************************************************************************)
EXTENDS Integers, Sequences, FiniteSets, TLC

\* ------------------------------------------------------------------ bounds
TicksPerSec == 2
StartSec    == 8
SpanTicks   == 4
MaxCalls    == 4
NumProcs    == 2
MaxInFlight == 3
MaxServed   == 3

Scale == 1 + 1

StartClock == StartSec * TicksPerSec
MaxClock   == StartClock + SpanTicks

Keys == {"a"}

\* NewLeakyBucket / NewTokenBucket: capacity and rate in halves, ttl in
\* seconds (0 = no expiry)
Config(capacity, rate, ttl) == [capacity |-> capacity, rate |-> rate, ttl |-> ttl]

\* the configurations explored: capacity 1, 2 and 2.5; rate 0, 0.5, 1 and 2
\* a second; with and without expiry
Configs ==
    { Config(2, 0, 0), Config(4, 0, 0), Config(4, 2, 0), Config(2, 1, 0),
      Config(2, 4, 2), Config(4, 2, 2), Config(5, 1, 2), Config(4, 0, 2) }

AlgorithmNames == {"leaky_bucket", "token_bucket", "sliding_window"}

\* ------------------------------------------------- strconv (decimal text)
DigitChars == <<"0", "1", "2", "3", "4", "5", "6", "7", "8", "9">>

IsDigit(ch) == \E i \in 1..10 : DigitChars[i] = ch

DigitVal(ch) == (CHOOSE i \in 1..10 : DigitChars[i] = ch) - 1

RECURSIVE FormatNat(_)
FormatNat(n) ==
    IF n < 10 THEN <<DigitChars[n + 1]>>
    ELSE FormatNat(n \div 10) \o <<DigitChars[(n % 10) + 1]>>

\* strconv.FormatInt(n, 10)
FormatInt(n) == IF n < 0 THEN <<"-">> \o FormatNat(-n) ELSE FormatNat(n)

\* strconv.FormatFloat(x, 'f', -1, 64) of x = h/Scale: the shortest decimal
\* text that reads back as x
FormatFloat(h) ==
    LET a    == IF h < 0 THEN -h ELSE h
        body == FormatNat(a \div Scale)
                  \o (IF a % Scale = 0 THEN <<>> ELSE <<".", "5">>)
    IN  IF h < 0 THEN <<"-">> \o body ELSE body

AllDigits(s) == Len(s) > 0 /\ \A i \in 1..Len(s) : IsDigit(s[i])

RECURSIVE NatVal(_)
NatVal(s) ==
    IF Len(s) = 0 THEN 0
    ELSE 10 * NatVal(SubSeq(s, 1, Len(s) - 1)) + DigitVal(s[Len(s)])

Unsigned(s) ==
    IF Len(s) > 0 /\ (s[1] = "-" \/ s[1] = "+") THEN Tail(s) ELSE s

Negative(s) == Len(s) > 0 /\ s[1] = "-"

\* strconv.ParseInt(s, 10, 64) with the error dropped: a text that is not
\* an optional sign and digits yields 0
ParseInt(s) ==
    LET u == Unsigned(s)
    IN  IF ~AllDigits(u) THEN 0
        ELSE IF Negative(s) THEN -NatVal(u) ELSE NatVal(u)

DotAt(s) == {i \in 1..Len(s) : s[i] = "."}

ExpAt(s) == {i \in 1..Len(s) : s[i] = "e" \/ s[i] = "E"}

\* digits with an optional fraction ".5" or ".0"
IsDecimal(u) ==
    LET dots == DotAt(u)
    IN  IF dots = {} THEN AllDigits(u)
        ELSE LET d == CHOOSE i \in dots : TRUE
             IN  /\ Cardinality(dots) = 1
                 /\ AllDigits(SubSeq(u, 1, d - 1))
                 /\ SubSeq(u, d + 1, Len(u)) \in {<<"5">>, <<"0">>}

\* the value of such a text, in halves
DecimalVal(u) ==
    LET dots == DotAt(u)
    IN  IF dots = {} THEN Scale * NatVal(u)
        ELSE LET d == CHOOSE i \in dots : TRUE
             IN  Scale * NatVal(SubSeq(u, 1, d - 1))
                    + (IF SubSeq(u, d + 1, Len(u)) = <<"5">> THEN 1 ELSE 0)

RECURSIVE Pow10(_)
Pow10(n) == IF n = 0 THEN 1 ELSE 10 * Pow10(n - 1)

\* float64 +Inf: a number above every level and every capacity
Inf == 1000000 * Scale

\* the error strconv.ParseFloat(s, 64) returns: "" for none, "syntax" for a
\* text that is no number, "range" for a number too large for float64 (here a
\* mantissa of 1 or more with a decimal exponent above 308)
ParseFloatErr(s) ==
    LET u  == Unsigned(s)
        es == ExpAt(u)
    IN  IF es = {} THEN (IF IsDecimal(u) THEN "" ELSE "syntax")
        ELSE LET e == CHOOSE i \in es : TRUE
                 m == SubSeq(u, 1, e - 1)
                 x == SubSeq(u, e + 1, Len(u))
             IN  IF Cardinality(es) = 1 /\ IsDecimal(m) /\ AllDigits(x)
                 THEN (IF DecimalVal(m) >= Scale /\ NatVal(x) > 308 THEN "range" ELSE "")
                 ELSE "syntax"

\* faulty variant: a text that is no number reads as 1
ParseFloatOne(s) ==
    LET u    == Unsigned(s)
        es   == ExpAt(u)
        sign == IF Negative(s) THEN -1 ELSE 1
    IN  IF ParseFloatErr(s) = "syntax" THEN Scale
        ELSE IF ParseFloatErr(s) = "range" THEN sign * Inf
        ELSE IF es = {} THEN sign * DecimalVal(u)
        ELSE LET e == CHOOSE i \in es : TRUE
             IN  sign * DecimalVal(SubSeq(u, 1, e - 1))
                      * Pow10(NatVal(SubSeq(u, e + 1, Len(u))))

\* strconv.ParseFloat(s, 64) with the error dropped, in halves: a text that
\* is no number yields 0, a number too large yields +Inf or -Inf
ParseFloat(s) ==
    LET u    == Unsigned(s)
        es   == ExpAt(u)
        sign == IF Negative(s) THEN -1 ELSE 1
    IN  IF ParseFloatErr(s) = "syntax" THEN 0
        ELSE IF ParseFloatErr(s) = "range" THEN sign * Inf
        ELSE IF es = {} THEN sign * DecimalVal(u)
        ELSE LET e == CHOOSE i \in es : TRUE
             IN  sign * DecimalVal(SubSeq(u, 1, e - 1))
                      * Pow10(NatVal(SubSeq(u, e + 1, Len(u))))

\* ------------------------------------------------------------ store names
\* faulty variant: the water entry is stored under the bucket's plain name
LBWaterKeyPlain(key) == "bucket:" \o key

\* LeakyBucket.waterKey / LeakyBucket.timeKey
LBWaterKey(key) == "bucket:" \o key \o ":water"
LBTimeKey(key)  == "bucket:" \o key \o ":time"
\* faulty variant: the token bucket keeps its time under the leaky bucket's name
TBTimeKeyShared(key) == "bucket:" \o key \o ":time"

\* TokenBucket.tokensKey / TokenBucket.timeKey
TBTokensKey(key) == "token:" \o key \o ":tokens"
TBTimeKey(key)   == "token:" \o key \o ":time"

ValKey(alg, key)  == IF alg = "tb" THEN TBTokensKey(key) ELSE LBWaterKey(key)
TimeKey(alg, key) == IF alg = "tb" THEN TBTimeKey(key) ELSE LBTimeKey(key)

NamesOf(keys) == UNION {{ValKey(alg, k), TimeKey(alg, k)} : alg \in {"lb", "tb"}, k \in keys}

EntryNames == NamesOf(Keys)

\* ------------------------------------------------------------------ state
VARIABLES
    cfg,      \* [lb : config, tb : config], fixed at construction
    clock,    \* wall clock in ticks
    store,    \* the key-value store: entry name -> entry
    current,  \* LimiterManager.current
    last,     \* the call that returned last (its locals and results), or the last event
    calls,    \* history: the limiter calls made so far
    lastSet,  \* history: the name set by the SetAlgorithm that returned true last,
              \* "" if none or if another switch has begun since that one began
    hist,     \* history of each key under each algorithm, see NoHistory
    mu,       \* LimiterManager.mu: [writer : BOOLEAN, readers : Nat]
    procs,    \* the goroutines calling the manager: their position and locals
    resp,     \* the HTTP response sent last, see NoResponse
    twin      \* history: the store as it would be had no GetStatus call been
              \* made (kept where the calls are made one after the other)

vars == <<cfg, clock, store, current, last, calls, lastSet, hist, mu, procs, resp, twin>>

Algs == {"lb", "tb"}

\* time.Now().Unix()
Now(clk) == clk \div TicksPerSec

Absent == [present |-> FALSE, val |-> <<>>, exp |-> 0]

\* faulty variant: entries never expire
LiveAlways(e, clk) == e.present

\* an entry whose expiry time has come is gone
Live(e, clk) == e.present /\ (e.exp = 0 \/ clk < e.exp)

Purge(st, clk) == [n \in DOMAIN st |-> IF Live(st[n], clk) THEN st[n] ELSE Absent]

\* redis Get: <<found, text>>; redis.Nil when the entry is absent
StoreGet(st, name) == st[name]

\* faulty variant: every entry is stored without expiry
StoreSetForever(st, name, text, ttl, clk) ==
    [st EXCEPT ![name] = [present |-> TRUE, val |-> text, exp |-> 0]]

\* redis Set(name, text, ttl): ttl = 0 stores the entry without expiry
StoreSet(st, name, text, ttl, clk) ==
    [st EXCEPT ![name] = [present |-> TRUE, val |-> text,
                          exp |-> IF ttl = 0 THEN 0 ELSE clk + ttl * TicksPerSec]]

\* redis Del(name): deleting an absent entry succeeds
StoreDel(st, name) == [st EXCEPT ![name] = Absent]

Capacity(c, alg) == c[alg].capacity
Rate(c, alg)     == c[alg].rate
TTL(c, alg)      == c[alg].ttl

Max(a, b) == IF a > b THEN a ELSE b
Min(a, b) == IF a < b THEN a ELSE b

\* --------------------------------------------------------- a call in flight
\* The locals of one Allow, Reset or GetStatus call.  failAt = i > 0 makes the
\* call's i-th store operation fail; n counts the store operations issued.
\* failed records that one of the call's store operations failed.
NewCall(alg, op, key, clk, failAt) ==
    [alg |-> alg, op |-> op, key |-> key,
     pc |-> IF op = "Reset" THEN "delVal" ELSE "getVal",
     now |-> Now(clk), failAt |-> failAt, n |-> 0,
     val |-> 0, exists |-> FALSE, lastTime |-> 0, elapsed |-> 0, level |-> 0,
     allowed |-> FALSE, remaining |-> 0, usage |-> 0, isLimited |-> FALSE,
     err |-> FALSE, failed |-> FALSE]

\* what a finished call leaves for its caller: its results
Returned(c) ==
    [op |-> c.op, alg |-> c.alg, key |-> c.key, allowed |-> c.allowed,
     remaining |-> c.remaining, usage |-> c.usage, isLimited |-> c.isLimited,
     err |-> c.err, failed |-> c.failed]

\* an event that is not a limiter call (Tick, SetAlgorithm, GetCurrentAlgorithm)
Event(op, arg, ok) ==
    [op |-> op, alg |-> "", key |-> arg, allowed |-> ok,
     remaining |-> 0, usage |-> 0, isLimited |-> FALSE,
     err |-> FALSE, failed |-> FALSE]

Fails(c) == c.failAt = c.n + 1

\* return (false, 0, err): the failing store operation was the call's last
ReturnErr(c) ==
    [c EXCEPT !.pc = "done", !.n = @ + 1, !.failAt = 0, !.failed = TRUE,
              !.err = TRUE, !.allowed = FALSE, !.remaining = 0]

Finish(c) == [c EXCEPT !.pc = "done", !.failAt = 0]

Out(c, st) == [c |-> c, st |-> st]

\* ------------------------------------------------------------ LeakyBucket
\* faulty variant: a bucket configured not to leak leaks half a request a second
LBDrainAtLeast(waterLevel, elapsed, leakRate) ==
    Max(waterLevel - elapsed * Max(leakRate, 1), 0)

\* faulty variant: the bucket never leaks
LBDrainNone(waterLevel, elapsed, leakRate) == waterLevel

\* the water left after elapsed seconds of leaking, never below 0
LBDrain(waterLevel, elapsed, leakRate) == Max(waterLevel - elapsed * leakRate, 0)

\* faulty variant: a bucket filled exactly to capacity still admits
LBFullStrict(waterLevel, capacity) == waterLevel > capacity

\* the bucket is full: the request is rejected
LBFull(waterLevel, capacity) == waterLevel >= capacity

\* faulty variant: the remaining capacity taken before the request is added
LBRemainingBefore(capacity, waterLevel) == capacity - waterLevel + Scale

\* remaining := lb.Capacity - waterLevel
LBRemaining(capacity, waterLevel) == capacity - waterLevel

\* Get(waterKey): absent = 0, error = return, else ParseFloat
LBGetWater(c, st) ==
    IF Fails(c) THEN Out(ReturnErr(c), st)
    ELSE LET e == StoreGet(st, LBWaterKey(c.key))
         IN  Out([c EXCEPT !.pc = "getTime", !.n = @ + 1, !.exists = e.present,
                           !.val = IF e.present THEN ParseFloat(e.val) ELSE 0], st)

\* Get(timeKey): absent = now, error = return, else ParseInt
LBGetTime(c, st) ==
    IF Fails(c) THEN Out(ReturnErr(c), st)
    ELSE LET e == StoreGet(st, LBTimeKey(c.key))
         IN  Out([c EXCEPT !.pc = "compute", !.n = @ + 1,
                           !.lastTime = IF e.present THEN ParseInt(e.val) ELSE c.now], st)

\* faulty variant: a full bucket saves the leaked level and the time before it rejects
LBDecideTouch(c, st, cf) ==
    LET elapsed == c.now - c.lastTime
        level   == LBDrain(c.val, elapsed, cf.lb.rate)
        d       == [c EXCEPT !.elapsed = elapsed, !.level = level]
    IN  IF LBFull(level, cf.lb.capacity)
        THEN Out(Finish([d EXCEPT !.allowed = FALSE, !.remaining = 0]),
                 StoreSet(StoreSet(st, LBWaterKey(c.key), FormatFloat(level), 0, 0),
                          LBTimeKey(c.key), FormatInt(c.now), 0, 0))
        ELSE Out([d EXCEPT !.pc = "setVal", !.val = level + Scale], st)

\* the leak and the admission test of LeakyBucket.Allow, between its reads
\* and its writes: a full bucket returns (false, 0, nil) and writes nothing
LBDecide(c, st, cf) ==
    LET elapsed == c.now - c.lastTime
        level   == LBDrain(c.val, elapsed, cf.lb.rate)
        d       == [c EXCEPT !.elapsed = elapsed, !.level = level]
    IN  IF LBFull(level, cf.lb.capacity)
        THEN Out(Finish([d EXCEPT !.allowed = FALSE, !.remaining = 0]), st)
        ELSE Out([d EXCEPT !.pc = "setVal", !.val = level + Scale], st)

\* one step of LeakyBucket.Allow: a store operation and the code up to the next one
LBAllowStep(c, st, cf, clk) ==
    CASE c.pc = "getVal"  -> LBGetWater(c, st)
      [] c.pc = "getTime" ->
            LET r == LBGetTime(c, st)
            IN  IF r.c.pc = "done" THEN r ELSE LBDecide(r.c, r.st, cf)
      [] c.pc = "setVal"  ->
            IF Fails(c) THEN Out(ReturnErr(c), st)
            ELSE Out([c EXCEPT !.pc = "setTime", !.n = @ + 1],
                     StoreSet(st, LBWaterKey(c.key), FormatFloat(c.val), cf.lb.ttl, clk))
      [] c.pc = "setTime" ->
            IF Fails(c) THEN Out(ReturnErr(c), st)
            ELSE Out(Finish([c EXCEPT !.n = @ + 1, !.allowed = TRUE,
                                      !.remaining = LBRemaining(cf.lb.capacity, c.val)]),
                     StoreSet(st, LBTimeKey(c.key), FormatInt(c.now), cf.lb.ttl, clk))

\* faulty variant: Reset deletes the time entry and leaves the water entry
LBResetStepKeepsWater(c, st, cf, clk) ==
    CASE c.pc = "delVal"  ->
            IF Fails(c) THEN Out(ReturnErr(c), st)
            ELSE Out([c EXCEPT !.pc = "delTime", !.n = @ + 1], st)
      [] c.pc = "delTime" ->
            IF Fails(c) THEN Out(ReturnErr(c), st)
            ELSE Out(Finish([c EXCEPT !.n = @ + 1]), StoreDel(st, LBTimeKey(c.key)))

\* LeakyBucket.Reset: a pipeline of two Del; Exec returns the first error
LBResetStep(c, st, cf, clk) ==
    CASE c.pc = "delVal"  ->
            IF Fails(c) THEN Out(ReturnErr(c), st)
            ELSE Out([c EXCEPT !.pc = "delTime", !.n = @ + 1],
                     StoreDel(st, LBWaterKey(c.key)))
      [] c.pc = "delTime" ->
            IF Fails(c) THEN Out(ReturnErr(c), st)
            ELSE Out(Finish([c EXCEPT !.n = @ + 1]),
                     StoreDel(st, LBTimeKey(c.key)))

\* faulty variant: GetStatus saves the leaked level and the time
LBGetStatusStepSaves(c, st, cf, clk) ==
    CASE c.pc = "getVal"  -> LBGetWater(c, st)
      [] c.pc = "getTime" ->
            LET r == LBGetTime(c, st)
            IN  IF r.c.pc = "done" THEN r
                ELSE LET elapsed == r.c.now - r.c.lastTime
                         level   == LBDrain(r.c.val, elapsed, cf.lb.rate)
                     IN  Out(Finish([r.c EXCEPT !.elapsed = elapsed, !.level = level,
                                                !.val = level, !.usage = level,
                                                !.remaining = Max(cf.lb.capacity - level, 0),
                                                !.isLimited = LBFull(level, cf.lb.capacity)]),
                             StoreSet(StoreSet(st, LBWaterKey(c.key), FormatFloat(level),
                                               cf.lb.ttl, clk),
                                      LBTimeKey(c.key), FormatInt(c.now), cf.lb.ttl, clk))

\* LeakyBucket.GetStatus: the reads and the decay of Allow, and no write
LBGetStatusStep(c, st, cf, clk) ==
    CASE c.pc = "getVal"  -> LBGetWater(c, st)
      [] c.pc = "getTime" ->
            LET r == LBGetTime(c, st)
            IN  IF r.c.pc = "done" THEN r
                ELSE LET elapsed == r.c.now - r.c.lastTime
                         level   == LBDrain(r.c.val, elapsed, cf.lb.rate)
                     IN  Out(Finish([r.c EXCEPT !.elapsed = elapsed, !.level = level,
                                                !.val = level, !.usage = level,
                                                !.remaining = Max(cf.lb.capacity - level, 0),
                                                !.isLimited = LBFull(level, cf.lb.capacity)]),
                             st)

\* ------------------------------------------------------------ TokenBucket
\* faulty variant: the bucket refills at twice its rate
TBRefillDouble(tokens, elapsed, refillRate, capacity) ==
    Min(tokens + 2 * elapsed * refillRate, capacity)

\* faulty variant: the refill is not capped
TBRefillUncapped(tokens, elapsed, refillRate, capacity) == tokens + elapsed * refillRate

\* the tokens after elapsed seconds of refill, never above capacity
TBRefill(tokens, elapsed, refillRate, capacity) ==
    Min(tokens + elapsed * refillRate, capacity)

\* faulty variant: the last whole token is never handed out
TBEmptyInclusive(tokens) == tokens <= Scale

\* less than one token: the request is rejected
TBEmpty(tokens) == tokens < Scale

\* faulty variant: an unseen key starts with an empty bucket
TBUnseenEmpty(capacity) == 0

\* an unseen key starts with a full bucket
TBUnseenTokens(capacity) == capacity

\* Get(tokensKey): absent = full bucket, error = return, else ParseFloat
TBGetTokens(c, st, cf) ==
    IF Fails(c) THEN Out(ReturnErr(c), st)
    ELSE LET e == StoreGet(st, TBTokensKey(c.key))
         IN  Out([c EXCEPT !.pc = "getTime", !.n = @ + 1, !.exists = e.present,
                           !.val = IF e.present THEN ParseFloat(e.val)
                                   ELSE TBUnseenTokens(cf.tb.capacity)], st)

\* Get(timeKey): absent = now, error = return, else ParseInt
TBGetTime(c, st) ==
    IF Fails(c) THEN Out(ReturnErr(c), st)
    ELSE LET e == StoreGet(st, TBTimeKey(c.key))
         IN  Out([c EXCEPT !.pc = "compute", !.n = @ + 1,
                           !.lastTime = IF e.present THEN ParseInt(e.val) ELSE c.now], st)

\* faulty variant: an admitted request takes no token
TBDecideKeepsToken(c, st, cf) ==
    LET elapsed == c.now - c.lastTime
        level   == TBRefill(c.val, elapsed, cf.tb.rate, cf.tb.capacity)
        d       == [c EXCEPT !.elapsed = elapsed, !.level = level]
    IN  IF TBEmpty(level)
        THEN Out(Finish([d EXCEPT !.allowed = FALSE, !.remaining = 0]), st)
        ELSE Out([d EXCEPT !.pc = "setVal", !.val = level], st)

\* the refill and the admission test of TokenBucket.Allow, between its reads
\* and its writes: an empty bucket returns (false, 0, nil) and writes nothing
TBDecide(c, st, cf) ==
    LET elapsed == c.now - c.lastTime
        level   == TBRefill(c.val, elapsed, cf.tb.rate, cf.tb.capacity)
        d       == [c EXCEPT !.elapsed = elapsed, !.level = level]
    IN  IF TBEmpty(level)
        THEN Out(Finish([d EXCEPT !.allowed = FALSE, !.remaining = 0]), st)
        ELSE Out([d EXCEPT !.pc = "setVal", !.val = level - Scale], st)

\* one step of TokenBucket.Allow
TBAllowStep(c, st, cf, clk) ==
    CASE c.pc = "getVal"  -> TBGetTokens(c, st, cf)
      [] c.pc = "getTime" ->
            LET r == TBGetTime(c, st)
            IN  IF r.c.pc = "done" THEN r ELSE TBDecide(r.c, r.st, cf)
      [] c.pc = "setVal"  ->
            IF Fails(c) THEN Out(ReturnErr(c), st)
            ELSE Out([c EXCEPT !.pc = "setTime", !.n = @ + 1],
                     StoreSet(st, TBTokensKey(c.key), FormatFloat(c.val), cf.tb.ttl, clk))
      [] c.pc = "setTime" ->
            IF Fails(c) THEN Out(ReturnErr(c), st)
            ELSE Out(Finish([c EXCEPT !.n = @ + 1, !.allowed = TRUE,
                                      !.remaining = c.val]),
                     StoreSet(st, TBTimeKey(c.key), FormatInt(c.now), cf.tb.ttl, clk))

\* TokenBucket.Reset: a pipeline of two Del; Exec returns the first error
TBResetStep(c, st, cf, clk) ==
    CASE c.pc = "delVal"  ->
            IF Fails(c) THEN Out(ReturnErr(c), st)
            ELSE Out([c EXCEPT !.pc = "delTime", !.n = @ + 1],
                     StoreDel(st, TBTokensKey(c.key)))
      [] c.pc = "delTime" ->
            IF Fails(c) THEN Out(ReturnErr(c), st)
            ELSE Out(Finish([c EXCEPT !.n = @ + 1]),
                     StoreDel(st, TBTimeKey(c.key)))

\* faulty variant: the snapshot never says limited
TBStatusNeverLimited(c, cf) ==
    Finish([c EXCEPT !.usage = Max(cf.tb.capacity - c.val, 0), !.remaining = c.val,
                     !.isLimited = FALSE])

\* the snapshot TokenBucket.GetStatus returns
TBStatus(c, cf) ==
    Finish([c EXCEPT !.usage = Max(cf.tb.capacity - c.val, 0), !.remaining = c.val,
                     !.isLimited = TBEmpty(c.val)])

\* faulty variant: GetStatus saves whenever the key existed
TBStatusSavesAlways(keyExists, elapsed) == keyExists

\* TokenBucket.GetStatus saves the refilled state when the key existed and
\* time has passed
TBStatusSaves(keyExists, elapsed) == keyExists /\ elapsed > 0

\* a Set whose result TokenBucket.GetStatus never looks at
TBSetUnchecked(c, st, name, text, ttl, clk) ==
    IF Fails(c) THEN Out([c EXCEPT !.n = @ + 1, !.failAt = 0, !.failed = TRUE], st)
    ELSE Out([c EXCEPT !.n = @ + 1], StoreSet(st, name, text, ttl, clk))

\* one step of TokenBucket.GetStatus
TBGetStatusStep(c, st, cf, clk) ==
    CASE c.pc = "getVal"  -> TBGetTokens(c, st, cf)
      [] c.pc = "getTime" ->
            LET r == TBGetTime(c, st)
            IN  IF r.c.pc = "done" THEN r
                ELSE LET elapsed == r.c.now - r.c.lastTime
                         level   == TBRefill(r.c.val, elapsed, cf.tb.rate, cf.tb.capacity)
                         d       == [r.c EXCEPT !.elapsed = elapsed, !.level = level,
                                                !.val = level]
                     IN  IF TBStatusSaves(d.exists, elapsed)
                         THEN Out([d EXCEPT !.pc = "setVal"], st)
                         ELSE Out(TBStatus(d, cf), st)
      [] c.pc = "setVal"  ->
            LET r == TBSetUnchecked(c, st, TBTokensKey(c.key), FormatFloat(c.val),
                                    cf.tb.ttl, clk)
            IN  Out([r.c EXCEPT !.pc = "setTime"], r.st)
      [] c.pc = "setTime" ->
            LET r == TBSetUnchecked(c, st, TBTimeKey(c.key), FormatInt(c.now),
                                    cf.tb.ttl, clk)
            IN  Out(TBStatus(r.c, cf), r.st)

\* ------------------------------------------------------------ whole calls
Step(c, st, cf, clk) ==
    CASE c.alg = "lb" /\ c.op = "Allow"     -> LBAllowStep(c, st, cf, clk)
      [] c.alg = "lb" /\ c.op = "Reset"     -> LBResetStep(c, st, cf, clk)
      [] c.alg = "lb" /\ c.op = "GetStatus" -> LBGetStatusStep(c, st, cf, clk)
      [] c.alg = "tb" /\ c.op = "Allow"     -> TBAllowStep(c, st, cf, clk)
      [] c.alg = "tb" /\ c.op = "Reset"     -> TBResetStep(c, st, cf, clk)
      [] c.alg = "tb" /\ c.op = "GetStatus" -> TBGetStatusStep(c, st, cf, clk)

\* a call run from its first store operation to its return, nothing in between
RECURSIVE Run(_, _, _, _)
Run(c, st, cf, clk) ==
    IF c.pc = "done" THEN Out(c, st)
    ELSE LET r == Step(c, st, cf, clk) IN Run(r.c, r.st, cf, clk)

\* the store operations a call can issue, at most
MaxStoreOps(op) == IF op = "Reset" THEN 2 ELSE 4

\* ------------------------------------------------------------- middleware
\* strconv.FormatFloat(x, 'f', 0, 64) of x = h/Scale: no decimals, a half
\* rounded to the even neighbour, the sign kept
FormatFloatRounded(h) ==
    LET a == IF h < 0 THEN -h ELSE h
        q == a \div Scale
        n == IF a % Scale = 0 \/ q % 2 = 0 THEN q ELSE q + 1
    IN  IF h < 0 THEN <<"-">> \o FormatNat(n) ELSE FormatNat(n)

\* a response not yet written:
\*   status      the HTTP status code, 0 while none is written
\*   hasHeader   X-RateLimit-Remaining is set, header is its text
\*   next        the middleware called c.Next()
\*   aborted     c.Abort() was called
\*   downstream  the handler behind the middleware ran
\*   keys        (ListKeys) the statuses listed
\*   id          history: the number of the call the response belongs to
NoResponse ==
    [status |-> 0, hasHeader |-> FALSE, header |-> <<>>, next |-> FALSE,
     aborted |-> FALSE, downstream |-> FALSE, keys |-> <<>>, id |-> 0]

\* the handlers given as RateLimitConfig.ErrHandler: DefaultErrHandler and the
\* handler of TestRateLimitWithConfig_CustomErrorHandler
ErrHandlers == {"default", "custom"}

\* DefaultErrHandler: 429 and c.Abort(); the custom handler: 403 and c.Abort()
ErrHandler(errHandler, w) ==
    IF errHandler = "custom"
    THEN [w EXCEPT !.status = 403, !.aborted = TRUE]
    ELSE [w EXCEPT !.status = 429, !.aborted = TRUE]

\* gin runs the handlers behind the middleware inside c.Next(), or after the
\* middleware has returned unless c.Abort() was called; they answer 200
Downstream(w) ==
    IF w.next \/ ~w.aborted
    THEN [w EXCEPT !.downstream = TRUE, !.status = 200]
    ELSE w

\* faulty variant: a failed check is answered like a denial
RateLimitWithConfigDenies(errHandler, ret) ==
    IF ret.err \/ ~ret.allowed
    THEN Downstream(ErrHandler(errHandler,
             [NoResponse EXCEPT !.hasHeader = TRUE,
                                !.header = FormatFloatRounded(ret.remaining)]))
    ELSE Downstream([NoResponse EXCEPT !.hasHeader = TRUE,
                                       !.header = FormatFloatRounded(ret.remaining),
                                       !.next = TRUE])

\* the handler RateLimitWithConfig returns, given what Allow returned
RateLimitWithConfig(errHandler, ret) ==
    IF ret.err
    THEN Downstream([NoResponse EXCEPT !.status = 500, !.aborted = TRUE])
    ELSE LET w == [NoResponse EXCEPT !.hasHeader = TRUE,
                                     !.header = FormatFloatRounded(ret.remaining)]
         IN  IF ~ret.allowed
             THEN Downstream(ErrHandler(errHandler, w))
             ELSE Downstream([w EXCEPT !.next = TRUE])

\* ---------------------------------------------------------- LimiterManager
\* NewLimiterManager stores defaultAlgorithm as given
NewLimiterManager(defaultAlgorithm) == defaultAlgorithm

\* faulty variant: every name is taken
ValidAlgorithmAny(algorithm) == TRUE

\* LimiterManager.SetAlgorithm: the name check
ValidAlgorithm(algorithm) == algorithm = "leaky_bucket" \/ algorithm = "token_bucket"

\* faulty variant: the manager always hands out the leaky bucket
GetActiveLimiterLeaky(cur) == "lb"

\* LimiterManager.GetActiveLimiter
GetActiveLimiter(cur) == IF cur = "token_bucket" THEN "tb" ELSE "lb"

\* the map GetAlgorithmInfo returns, before it is filled in
NoInfo == [current |-> "", capacity |-> 0, rate |-> 0, rate_name |-> ""]

\* LimiterManager.GetAlgorithmInfo, given the value read from m.current
GetAlgorithmInfo(cur, cf) ==
    IF cur = "leaky_bucket"
    THEN [current |-> cur, capacity |-> cf.lb.capacity, rate |-> cf.lb.rate,
          rate_name |-> "leak_rate"]
    ELSE [current |-> cur, capacity |-> cf.tb.capacity, rate |-> cf.tb.rate,
          rate_name |-> "refill_rate"]

\* no call
NoCall == Finish(NewCall("", "", "", 0, 0))

\* sync.RWMutex: Lock waits until nobody holds the lock, RLock until no writer does
Unlocked == [writer |-> FALSE, readers |-> 0]

CanLock(m) == ~m.writer /\ m.readers = 0

\* faulty variant: a read lock that does not wait for the writer
CanRLockAlways(m) == TRUE

CanRLock(m) == ~m.writer

Procs == 1..NumProcs

\* a goroutine outside the manager; accept, expect, overlap and raced are history:
\*   accept   (GetCurrentAlgorithm) the name current held when the call began and
\*            the names of the switches in progress at some time during the call
\*   expect   (GetCurrentAlgorithm) lastSet when the call began
\*   overlap  (GetCurrentAlgorithm) a switch was in progress during the call
\*   raced    (SetAlgorithm) another switch was in progress during the call
\*   resolved   (Allow) the limiter GetActiveLimiter handed to the call
\*   call       (Allow) the locals of the limiter's method
\*   switchedAt (Allow) history: the store operations the call had issued when
\*              a switch away from its limiter was stored, -1 if none was
\*   info       (GetAlgorithmInfo) the map returned
\*   stale      (Allow) history: a Reset of the call's key has returned without
\*              error since the call began
IdleProc ==
    [pc |-> "idle", op |-> "", arg |-> "", ret |-> "", accept |-> {}, expect |-> "",
     overlap |-> FALSE, raced |-> FALSE,
     resolved |-> "", call |-> NoCall, switchedAt |-> -1, info |-> NoInfo,
     stale |-> FALSE]

\* a goroutine inside the limiter method the manager delegated to
InCall(pr) == pr.op \in {"Allow", "Reset", "GetStatus"} /\ pr.pc = "run"

Switching(pr) == pr.op = "SetAlgorithm" /\ pr.pc # "idle"

Reading(pr) == pr.op = "GetCurrentAlgorithm" /\ pr.pc # "idle"

\* what a string that is neither the old nor the new value reads as
Torn == "<torn>"

\* the values a load of m.current can yield: a string is two words, and a load
\* that runs while a store of it is under way is a data race
Load(cur, ps) ==
    IF \E q \in Procs : ps[q].pc = "storing"
    THEN {cur, Torn} \cup {ps[q].arg : q \in {r \in Procs : ps[r].pc = "storing"}}
    ELSE {cur}

\* ---------------------------------------------------------------- history
\* What has happened to one key under one algorithm; the code keeps none of it.
\*   admits       the Allow calls admitted so far
\*   admitAt      tick of the last admitted Allow, -1 if none
\*   deniedAt     tick of the first Allow denied since then and since the last
\*                Reset, -1 if none
\*   recovered    the last admitted Allow came after such a denial
\*   burst        Allow calls made since the key last had no stored state, with
\*                no Reset, failure, expiry or leak in between; -1 otherwise
\*   resets       error-free Resets that are the latest calls for the key
\*   afterResets  resets as it was before the latest call for the key
\*   clean        no store operation of a call for the key has failed
\*   fill         the level the last admitted Allow stored (at admitAt), -1 if
\*                none or if an Allow, a Reset or a saving GetStatus came after
\*   admitSecs    the clock readings, in seconds, of the Allow calls admitted
\*                since the last Reset, in the order of the calls
\*   elsewhere    the latest call for the key under this algorithm was a Reset
\*                and a call under the other algorithm has followed it
\*   snap         what the latest call for the key returned if it was a GetStatus
\*                without a failure and no time has passed since
\*   prevSnap     snap as it was before the latest call for the key
NoSnapshot == [taken |-> FALSE, isLimited |-> FALSE, remaining |-> 0]

OtherAlg(alg) == IF alg = "tb" THEN "lb" ELSE "tb"

NoHistory ==
    [admits |-> 0, admitAt |-> -1, deniedAt |-> -1, recovered |-> FALSE, burst |-> 0,
     resets |-> 0, afterResets |-> 0, clean |-> TRUE, fill |-> -1, admitSecs |-> <<>>,
     snap |-> NoSnapshot, prevSnap |-> NoSnapshot, elsewhere |-> FALSE]

Unseen(st, alg, key) == ~st[ValKey(alg, key)].present /\ ~st[TimeKey(alg, key)].present

HistCall(h, c, st, clk) ==
    LET admitted == c.op = "Allow" /\ c.allowed
        denied   == c.op = "Allow" /\ ~c.allowed /\ ~c.err
    IN  [admits      |-> IF admitted THEN h.admits + 1 ELSE h.admits,
         admitAt     |-> IF admitted THEN clk ELSE h.admitAt,
         deniedAt    |-> IF admitted \/ c.op = "Reset" THEN -1
                         ELSE IF denied /\ h.deniedAt = -1 THEN clk ELSE h.deniedAt,
         recovered   |-> IF admitted THEN h.deniedAt >= 0 ELSE h.recovered,
         burst       |-> IF c.op = "Allow" /\ ~c.failed /\ h.burst >= 0 THEN h.burst + 1
                         ELSE IF Unseen(st, c.alg, c.key) THEN 0
                         ELSE IF c.op = "GetStatus" /\ ~c.failed /\ c.alg = "lb" THEN h.burst
                         ELSE -1,
         resets      |-> IF c.op = "Reset" /\ ~c.err THEN h.resets + 1 ELSE 0,
         afterResets |-> h.resets,
         clean       |-> h.clean /\ ~c.failed,
         fill        |-> IF admitted THEN c.val
                         ELSE IF c.op = "GetStatus" /\ c.alg = "lb" THEN h.fill
                         ELSE -1,
         admitSecs   |-> IF admitted THEN Append(h.admitSecs, c.now)
                         ELSE IF c.op = "Reset" THEN <<>>
                         ELSE h.admitSecs,
         snap        |-> IF c.op = "GetStatus" /\ ~c.failed
                         THEN [taken |-> TRUE, isLimited |-> c.isLimited,
                               remaining |-> c.remaining]
                         ELSE NoSnapshot,
         prevSnap    |-> h.snap,
         elsewhere   |-> FALSE]

HistTick(h, st, stAfter, cf, alg, key, clk) ==
    [h EXCEPT !.burst =
        IF Unseen(stAfter, alg, key) THEN 0
        ELSE IF stAfter # st \/ (cf[alg].rate > 0 /\ Now(clk + 1) # Now(clk)) THEN -1
        ELSE @,
              !.snap = NoSnapshot, !.prevSnap = NoSnapshot]

\* ------------------------------------------------- sequential specification
Init ==
    /\ cfg \in {[lb |-> c, tb |-> c] : c \in Configs}
    /\ clock = StartClock
    /\ store = [n \in EntryNames |-> Absent]
    /\ current \in {NewLimiterManager(d) : d \in {"leaky_bucket", "token_bucket"}}
    /\ last = Event("Init", "", TRUE)
    /\ calls = 0
    /\ lastSet = ""
    /\ hist = [alg \in Algs |-> [k \in Keys |-> NoHistory]]
    /\ mu = Unlocked
    /\ procs = [p \in Procs |-> IdleProc]
    /\ resp = NoResponse
    /\ twin = store

\* LimiterManager.Allow / Reset / GetStatus: the active limiter's call, whole
Call(op, key, failAt) ==
    LET alg == GetActiveLimiter(current)
        r   == Run(NewCall(alg, op, key, clock, failAt), store, cfg, clock)
    IN  /\ calls < MaxCalls
        /\ calls' = calls + 1
        /\ store' = r.st
        /\ last' = Returned(r.c)
        /\ hist' = [hist EXCEPT ![alg][key] = HistCall(@, r.c, r.st, clock),
                                ![OtherAlg(alg)][key].elsewhere =
                                    hist[OtherAlg(alg)][key].resets > 0]
        /\ twin' = IF op = "GetStatus" THEN twin
                   ELSE Run(NewCall(alg, op, key, clock, failAt), twin, cfg, clock).st
        /\ UNCHANGED <<cfg, clock, current, lastSet, mu, procs>>

Allow(key) ==
    \E f \in 0..MaxStoreOps("Allow") : Call("Allow", key, f) /\ UNCHANGED resp

Reset(key) ==
    \E f \in 0..MaxStoreOps("Reset") : Call("Reset", key, f) /\ UNCHANGED resp

GetStatus(key) ==
    \E f \in 0..MaxStoreOps("GetStatus") : Call("GetStatus", key, f) /\ UNCHANGED resp

\* a request to a route behind the middleware: the manager's Allow, and the
\* answer made from what it returned
Request(key) ==
    \E f \in 0..MaxStoreOps("Allow") : \E errHandler \in ErrHandlers :
        /\ Call("Allow", key, f)
        /\ resp' = [RateLimitWithConfig(errHandler, last') EXCEPT !.id = calls + 1]

\* the Status a GetStatus call returns
StatusOf(c, cf) ==
    [key |-> c.key, current |-> c.usage, capacity |-> cf[c.alg].capacity,
     remaining |-> c.remaining, leak_rate |-> cf[c.alg].rate,
     is_limited |-> c.isLimited,
     algorithm |-> IF c.alg = "tb" THEN "token_bucket" ELSE "leaky_bucket"]

\* redis Keys("bucket:*:water"): the names of the stored entries that begin
\* with "bucket:" and end with ":water"
KeysMatching(st) ==
    {n \in DOMAIN st :
        /\ st[n].present
        /\ Len(n) >= 13
        /\ SubSeq(n, 1, 7) = "bucket:"
        /\ SubSeq(n, Len(n) - 5, Len(n)) = ":water"}

\* fullKey[7 : len(fullKey)-6]
KeyOf(fullKey) == SubSeq(fullKey, 8, Len(fullKey) - 6)

\* the loop of ListKeys over the names found: the manager's GetStatus for each,
\* a status appended unless the call returned an error.  failAt = i > 0 makes
\* the i-th store operation of the loop fail.  The result: the statuses, the
\* store, the calls made.
RECURSIVE ListStatuses(_, _, _, _, _, _)
\* one round of the loop: r is the GetStatus call made for the name, rest the
\* rounds after it
ListAppend(r, rest, cf) ==
    [statuses |-> (IF r.c.err THEN <<>> ELSE <<StatusOf(r.c, cf)>>) \o rest.statuses,
     st       |-> rest.st,
     done     |-> <<r.c>> \o rest.done]

ListAfter(names, r, cur, cf, clk, failAt) ==
    ListAppend(r, ListStatuses(names, r.st, cur, cf, clk,
                               IF r.c.failed \/ failAt = 0 THEN 0 ELSE failAt - r.c.n),
               cf)

ListName(names, n, st, cur, cf, clk, failAt) ==
    ListAfter(names \ {n},
              Run(NewCall(GetActiveLimiter(cur), "GetStatus", KeyOf(n), clk, failAt),
                  st, cf, clk),
              cur, cf, clk, failAt)

ListStatuses(names, st, cur, cf, clk, failAt) ==
    IF names = {} THEN [statuses |-> <<>>, st |-> st, done |-> <<>>]
    ELSE ListName(names, CHOOSE x \in names : TRUE, st, cur, cf, clk, failAt)

RECURSIVE HistCalls(_, _, _, _)
HistCalls(h, done, st, clk) ==
    IF done = <<>> THEN h
    ELSE HistCalls([h EXCEPT ![Head(done).alg][Head(done).key] =
                        HistCall(@, Head(done), st, clk),
                             ![OtherAlg(Head(done).alg)][Head(done).key].elsewhere =
                                 h[OtherAlg(Head(done).alg)][Head(done).key].resets > 0],
                   Tail(done), st, clk)

\* Handler.ListKeys: 500 when Keys fails, else the statuses with 200
ListKeys ==
    \E f \in 0..(1 + MaxStoreOps("GetStatus")) :
        LET r == ListStatuses(KeysMatching(store), store, current, cfg, clock,
                              IF f = 0 THEN 0 ELSE f - 1)
        IN  /\ calls < MaxCalls
            /\ calls' = calls + 1
            /\ IF f = 1
               THEN /\ resp' = [NoResponse EXCEPT !.status = 500, !.id = calls + 1]
                    /\ last' = Event("ListKeys", "", FALSE)
                    /\ UNCHANGED <<store, hist>>
               ELSE /\ resp' = [NoResponse EXCEPT !.status = 200, !.keys = r.statuses,
                                                  !.id = calls + 1]
                    /\ last' = Event("ListKeys", "",
                                     \A i \in 1..Len(r.done) : ~r.done[i].failed)
                    /\ store' = r.st
                    /\ hist' = HistCalls(hist, r.done, r.st, clock)
            /\ UNCHANGED <<twin, cfg, clock, current, lastSet, mu, procs>>

\* time passes by one tick; entries whose expiry has come are gone
Tick ==
    /\ clock < MaxClock
    /\ clock' = clock + 1
    /\ store' = Purge(store, clock + 1)
    /\ last' = Event("Tick", "", TRUE)
    /\ hist' = [alg \in Algs |-> [k \in DOMAIN hist[alg] |->
                   HistTick(hist[alg][k], store, store', cfg, alg, k, clock)]]
    /\ twin' = Purge(twin, clock + 1)
    /\ UNCHANGED <<resp, cfg, current, calls, lastSet, mu, procs>>

\* ------------------------------------------------ LimiterManager, goroutines
\* SetAlgorithm is entered; an invalid name returns false at once
SetAlgorithmEnter(p, algorithm) ==
    /\ procs[p].pc = "idle"
    /\ IF ~ValidAlgorithm(algorithm)
       THEN /\ procs' = [procs EXCEPT ![p] =
                   [IdleProc EXCEPT !.op = "SetAlgorithm", !.arg = algorithm,
                                    !.ret = "false"]]
            /\ last' = Event("SetAlgorithm", algorithm, FALSE)
            /\ UNCHANGED lastSet
       ELSE /\ procs' = [q \in Procs |->
                   IF q = p
                   THEN [IdleProc EXCEPT !.pc = "lock", !.op = "SetAlgorithm",
                                         !.arg = algorithm,
                                         !.raced = \E r \in Procs : Switching(procs[r])]
                   ELSE IF Switching(procs[q]) THEN [procs[q] EXCEPT !.raced = TRUE]
                   ELSE IF Reading(procs[q])
                   THEN [procs[q] EXCEPT !.accept = @ \cup {algorithm}, !.overlap = TRUE]
                   ELSE procs[q]]
            /\ lastSet' = ""
            /\ UNCHANGED last
    /\ UNCHANGED <<twin, resp, cfg, clock, store, current, calls, hist, mu>>

\* m.mu.Lock()
SetAlgorithmLock(p) ==
    /\ procs[p].op = "SetAlgorithm" /\ procs[p].pc = "lock"
    /\ CanLock(mu)
    /\ mu' = [mu EXCEPT !.writer = TRUE]
    /\ procs' = [procs EXCEPT ![p].pc = "store"]
    /\ UNCHANGED <<twin, resp, cfg, clock, store, current, last, calls, lastSet, hist>>

\* m.current = algorithm, the store begins
SetAlgorithmStore(p) ==
    /\ procs[p].op = "SetAlgorithm" /\ procs[p].pc = "store"
    /\ procs' = [procs EXCEPT ![p].pc = "storing"]
    /\ UNCHANGED <<twin, resp, cfg, clock, store, current, last, calls, lastSet, hist, mu>>

\* m.current = algorithm, the store is complete
SetAlgorithmStored(p) ==
    /\ procs[p].op = "SetAlgorithm" /\ procs[p].pc = "storing"
    /\ current' = procs[p].arg
    /\ procs' = [q \in Procs |->
           IF q = p THEN [procs[q] EXCEPT !.pc = "unlock"]
           ELSE IF InCall(procs[q]) /\ procs[q].switchedAt = -1
                   /\ procs[q].resolved # GetActiveLimiter(procs[p].arg)
           THEN [procs[q] EXCEPT !.switchedAt = procs[q].call.n]
           ELSE procs[q]]
    /\ UNCHANGED <<twin, resp, cfg, clock, store, last, calls, lastSet, hist, mu>>

\* the deferred m.mu.Unlock() and return true
SetAlgorithmUnlock(p) ==
    /\ procs[p].op = "SetAlgorithm" /\ procs[p].pc = "unlock"
    /\ mu' = [mu EXCEPT !.writer = FALSE]
    /\ procs' = [procs EXCEPT ![p].pc = "idle", ![p].ret = "true"]
    /\ lastSet' = IF procs[p].raced THEN "" ELSE procs[p].arg
    /\ last' = Event("SetAlgorithm", procs[p].arg, TRUE)
    /\ UNCHANGED <<twin, resp, cfg, clock, store, current, calls, hist>>

\* GetCurrentAlgorithm is entered
GetCurrentAlgorithmEnter(p) ==
    /\ procs[p].pc = "idle"
    /\ procs' = [procs EXCEPT ![p] =
           [IdleProc EXCEPT !.pc = "rlock", !.op = "GetCurrentAlgorithm",
               !.accept = {current} \cup
                          {procs[q].arg : q \in {r \in Procs : Switching(procs[r])}},
               !.expect = lastSet,
               !.overlap = \E r \in Procs : Switching(procs[r])]]
    /\ UNCHANGED <<twin, resp, cfg, clock, store, current, last, calls, lastSet, hist, mu>>

\* m.mu.RLock()
GetCurrentAlgorithmRLock(p) ==
    /\ procs[p].op = "GetCurrentAlgorithm" /\ procs[p].pc = "rlock"
    /\ CanRLock(mu)
    /\ mu' = [mu EXCEPT !.readers = @ + 1]
    /\ procs' = [procs EXCEPT ![p].pc = "load"]
    /\ UNCHANGED <<twin, resp, cfg, clock, store, current, last, calls, lastSet, hist>>

\* the operand of return m.current is evaluated
GetCurrentAlgorithmLoad(p) ==
    /\ procs[p].op = "GetCurrentAlgorithm" /\ procs[p].pc = "load"
    /\ \E v \in Load(current, procs) :
           procs' = [procs EXCEPT ![p].pc = "runlock", ![p].ret = v]
    /\ UNCHANGED <<twin, resp, cfg, clock, store, current, last, calls, lastSet, hist, mu>>

\* the deferred m.mu.RUnlock() and the return
GetCurrentAlgorithmRUnlock(p) ==
    /\ procs[p].op = "GetCurrentAlgorithm" /\ procs[p].pc = "runlock"
    /\ mu' = [mu EXCEPT !.readers = @ - 1]
    /\ procs' = [procs EXCEPT ![p].pc = "idle"]
    /\ last' = Event("GetCurrentAlgorithm", procs[p].ret, TRUE)
    /\ UNCHANGED <<twin, resp, cfg, clock, store, current, calls, lastSet, hist>>

\* GetAlgorithmInfo is entered
GetAlgorithmInfoEnter(p) ==
    /\ procs[p].pc = "idle"
    /\ procs' = [procs EXCEPT ![p] =
           [IdleProc EXCEPT !.pc = "rlock", !.op = "GetAlgorithmInfo"]]
    /\ UNCHANGED <<twin, resp, cfg, clock, store, current, last, calls, lastSet, hist, mu>>

\* m.mu.RLock()
GetAlgorithmInfoRLock(p) ==
    /\ procs[p].op = "GetAlgorithmInfo" /\ procs[p].pc = "rlock"
    /\ CanRLock(mu)
    /\ mu' = [mu EXCEPT !.readers = @ + 1]
    /\ procs' = [procs EXCEPT ![p].pc = "load"]
    /\ UNCHANGED <<twin, resp, cfg, clock, store, current, last, calls, lastSet, hist>>

\* m.current is read and the map is filled in
GetAlgorithmInfoLoad(p) ==
    /\ procs[p].op = "GetAlgorithmInfo" /\ procs[p].pc = "load"
    /\ \E v \in Load(current, procs) :
           procs' = [procs EXCEPT ![p].pc = "runlock", ![p].ret = v,
                                  ![p].info = GetAlgorithmInfo(v, cfg)]
    /\ UNCHANGED <<twin, resp, cfg, clock, store, current, last, calls, lastSet, hist, mu>>

\* the deferred m.mu.RUnlock() and the return
GetAlgorithmInfoRUnlock(p) ==
    /\ procs[p].op = "GetAlgorithmInfo" /\ procs[p].pc = "runlock"
    /\ mu' = [mu EXCEPT !.readers = @ - 1]
    /\ procs' = [procs EXCEPT ![p].pc = "idle"]
    /\ last' = Event("GetAlgorithmInfo", procs[p].ret, TRUE)
    /\ UNCHANGED <<twin, resp, cfg, clock, store, current, calls, lastSet, hist>>

GetAlgorithmInfoCall(p) ==
    \/ GetAlgorithmInfoEnter(p)
    \/ GetAlgorithmInfoRLock(p)
    \/ GetAlgorithmInfoLoad(p)
    \/ GetAlgorithmInfoRUnlock(p)

SetAlgorithm(p) ==
    \/ \E algorithm \in AlgorithmNames : SetAlgorithmEnter(p, algorithm)
    \/ SetAlgorithmLock(p)
    \/ SetAlgorithmStore(p)
    \/ SetAlgorithmStored(p)
    \/ SetAlgorithmUnlock(p)

GetCurrentAlgorithm(p) ==
    \/ GetCurrentAlgorithmEnter(p)
    \/ GetCurrentAlgorithmRLock(p)
    \/ GetCurrentAlgorithmLoad(p)
    \/ GetCurrentAlgorithmRUnlock(p)

\* faulty variant: a call in flight follows the manager's selection
InFlightRedirected(c, cur) == [c EXCEPT !.alg = GetActiveLimiter(cur)]

\* m.GetActiveLimiter().Allow(ctx, key): the method runs on the limiter it was
\* called on, whatever m.current becomes
InFlight(c, cur) == c

\* what is kept of a call that has returned: the time and the level it worked
\* from and its verdict
Kept(c) == [NoCall EXCEPT !.lastTime = c.lastTime, !.level = c.level,
                          !.allowed = c.allowed]

\* LimiterManager.Allow is entered
CallEnter(p, op, key) ==
    /\ procs[p].pc = "idle"
    /\ calls + Cardinality({q \in Procs : procs[q].op = op /\ procs[q].pc # "idle"})
          < MaxInFlight
    /\ procs' = [procs EXCEPT ![p] =
           [IdleProc EXCEPT !.pc = "resolve", !.op = op, !.arg = key]]
    /\ UNCHANGED <<twin, resp, cfg, clock, store, current, last, calls, lastSet, hist, mu>>

\* m.GetActiveLimiter(): the read lock taken, m.current read, the lock released
CallResolve(p) ==
    /\ procs[p].pc = "resolve"
    /\ CanRLock(mu)
    /\ \E v \in Load(current, procs) :
           procs' = [procs EXCEPT ![p].pc = "run",
                                  ![p].resolved = GetActiveLimiter(v),
                                  ![p].call = NewCall(GetActiveLimiter(v), procs[p].op,
                                                      procs[p].arg, clock, 0)]
    /\ UNCHANGED <<twin, resp, cfg, clock, store, current, last, calls, lastSet, hist, mu>>

\* the limiter's method issues its next store operation; after the last one
\* the call returns
CallStep(p) ==
    /\ procs[p].pc = "run"
    /\ LET r == Step(InFlight(procs[p].call, current), store, cfg, clock)
       IN  /\ store' = r.st
           /\ IF r.c.pc = "done"
              THEN /\ procs' = [q \in Procs |->
                          IF q = p
                          THEN [procs[p] EXCEPT !.pc = "idle", !.call = Kept(r.c),
                                                !.stale = FALSE]
                          ELSE IF r.c.op = "Reset" /\ ~r.c.err /\ procs[q].op = "Allow"
                                  /\ procs[q].pc \in {"resolve", "run"}
                                  /\ procs[q].arg = r.c.key
                          THEN [procs[q] EXCEPT !.stale = TRUE]
                          ELSE procs[q]]
                   /\ last' = Returned(r.c)
                   /\ calls' = calls + 1
                   /\ hist' = [hist EXCEPT ![r.c.alg][r.c.key] =
                                  HistCall(@, r.c, r.st, clock),
                                          ![OtherAlg(r.c.alg)][r.c.key].elsewhere =
                                      hist[OtherAlg(r.c.alg)][r.c.key].resets > 0]
              ELSE /\ procs' = [procs EXCEPT ![p].call = r.c]
                   /\ UNCHANGED <<last, calls, hist>>
    /\ UNCHANGED <<twin, resp, cfg, clock, current, lastSet, mu>>

\* requests arrive one after the other and the operator never switches
Next ==
    \/ \E k \in Keys : Allow(k)
    \/ \E k \in Keys : Reset(k)
    \/ \E k \in Keys : GetStatus(k)
    \/ Tick

Spec == Init /\ [][Next]_vars

\* ---------------------------------------------- the manager under goroutines
\* the manager may be constructed with any default name
InitMgr ==
    /\ cfg = [lb |-> Config(4, 2, 0), tb |-> Config(5, 1, 0)]
    /\ clock = StartClock
    /\ store = [n \in EntryNames |-> Absent]
    /\ current \in {NewLimiterManager(d) : d \in AlgorithmNames}
    /\ last = Event("Init", "", TRUE)
    /\ calls = 0
    /\ lastSet = ""
    /\ hist = [alg \in Algs |-> [k \in Keys |-> NoHistory]]
    /\ mu = Unlocked
    /\ procs = [p \in Procs |-> IdleProc]
    /\ resp = NoResponse
    /\ twin = store

NextMgr ==
    \E p \in Procs : SetAlgorithm(p) \/ GetCurrentAlgorithm(p) \/ GetAlgorithmInfoCall(p)

SpecMgr == InitMgr /\ [][NextMgr]_vars

\* ------------------------------------- Allow calls and switches, goroutines
ConcConfig == Config(4, 0, 0)

InitConc ==
    /\ cfg = [lb |-> ConcConfig, tb |-> ConcConfig]
    /\ clock = StartClock
    /\ store = [n \in EntryNames |-> Absent]
    /\ current \in {NewLimiterManager(d) : d \in {"leaky_bucket", "token_bucket"}}
    /\ last = Event("Init", "", TRUE)
    /\ calls = 0
    /\ lastSet = ""
    /\ hist = [alg \in Algs |-> [k \in Keys |-> NoHistory]]
    /\ mu = Unlocked
    /\ procs = [p \in Procs |-> IdleProc]
    /\ resp = NoResponse
    /\ twin = store

\* the goroutines that serve the operator's switch requests, besides Allow
Operators == {1}

NextConc ==
    \/ \E p \in Procs :
           \/ \E k \in Keys : CallEnter(p, "Allow", k)
           \/ CallResolve(p)
           \/ CallStep(p)
    \/ \E p \in Operators : SetAlgorithm(p)

SpecConc == InitConc /\ [][NextConc]_vars

\* ------------------------------- Allow, GetStatus and Reset calls, goroutines
\* the calls begun and not yet returned
Busy == Cardinality({q \in Procs : procs[q].pc # "idle"})

NextReset ==
    \E p \in Procs :
        \/ /\ calls + Busy < MaxInFlight
           /\ \E k \in Keys : \E op \in {"Allow", "GetStatus", "Reset"} : CallEnter(p, op, k)
        \/ CallResolve(p)
        \/ CallStep(p)

SpecReset == InitConc /\ [][NextReset]_vars

\* ------------------- Allow calls one at a time, GetStatus calls beside them
\* a goroutine is inside Allow
Allowing == \E q \in Procs : procs[q].op = "Allow" /\ procs[q].pc # "idle"

NextStatus ==
    \/ \E p \in Procs :
           \/ /\ calls + Busy < MaxInFlight
              /\ \E k \in Keys :
                     \/ ~Allowing /\ CallEnter(p, "Allow", k)
                     \/ CallEnter(p, "GetStatus", k)
           \/ CallResolve(p)
           \/ CallStep(p)
    \/ Tick

SpecStatus == InitConc /\ [][NextStatus]_vars

\* ------------------------------- entries written by others, calls one at a time
\* what another client of the store may have left in a value entry: no
\* number, an empty text, a number too large for float64, and the level 1
ValueTexts == {<<"a", "b", "c">>, <<>>, <<"1", "e", "9", "9", "9">>, <<"1">>}

\* and in a time entry: no number, a number that is no integer, and the
\* second before the first call
TimeTexts == {<<"a", "b", "c">>, <<"1", ".", "5">>, FormatInt(StartSec - 1)}

Left(text) == [present |-> TRUE, val |-> text, exp |-> 0]

ParseConfigs == {Config(4, 1, 0)}

InitParse ==
    /\ cfg \in {[lb |-> c, tb |-> c] : c \in ParseConfigs}
    /\ clock = StartClock
    /\ current \in {NewLimiterManager(d) : d \in {"leaky_bucket", "token_bucket"}}
    /\ \E v \in {Absent} \cup {Left(t) : t \in ValueTexts} :
       \E w \in {Absent} \cup {Left(t) : t \in TimeTexts} :
           store = [n \in EntryNames |->
                       IF \E k \in Keys : n = ValKey(GetActiveLimiter(current), k) THEN v
                       ELSE IF \E k \in Keys : n = TimeKey(GetActiveLimiter(current), k)
                       THEN w ELSE Absent]
    /\ last = Event("Init", "", TRUE)
    /\ calls = 0
    /\ lastSet = ""
    /\ hist = [alg \in Algs |-> [k \in Keys |-> NoHistory]]
    /\ mu = Unlocked
    /\ procs = [p \in Procs |-> IdleProc]
    /\ resp = NoResponse
    /\ twin = store

NextParse ==
    \/ calls < MaxServed /\ \E k \in Keys : Allow(k)
    \/ calls < MaxServed /\ \E k \in Keys : GetStatus(k)
    \/ Tick

SpecParse == InitParse /\ [][NextParse]_vars

\* ------------------------------------ requests and switches, one at a time
\* LimiterManager.SetAlgorithm, whole
SetAlgorithmCall(algorithm) ==
    /\ CanLock(mu)
    /\ current' = IF ValidAlgorithm(algorithm) THEN algorithm ELSE current
    /\ lastSet' = IF ValidAlgorithm(algorithm) THEN algorithm ELSE lastSet
    /\ last' = Event("SetAlgorithm", algorithm, ValidAlgorithm(algorithm))
    /\ UNCHANGED <<twin, resp, cfg, clock, store, calls, hist, mu, procs>>

SwitchConfigs == {Config(5, 1, 2)}

InitSwitch ==
    /\ cfg \in {[lb |-> c, tb |-> c] : c \in SwitchConfigs}
    /\ clock = StartClock
    /\ store = [n \in EntryNames |-> Absent]
    /\ current \in {NewLimiterManager(d) : d \in AlgorithmNames}
    /\ last = Event("Init", "", TRUE)
    /\ calls = 0
    /\ lastSet = ""
    /\ hist = [alg \in Algs |-> [k \in Keys |-> NoHistory]]
    /\ mu = Unlocked
    /\ procs = [p \in Procs |-> IdleProc]
    /\ resp = NoResponse
    /\ twin = store

NextSwitch ==
    \/ calls < MaxServed /\ \E k \in Keys : Allow(k)
    \/ calls < MaxServed /\ \E k \in Keys : Reset(k)
    \/ calls < MaxServed /\ \E k \in Keys : GetStatus(k)
    \/ \E algorithm \in AlgorithmNames : SetAlgorithmCall(algorithm)
    \/ Tick

SpecSwitch == InitSwitch /\ [][NextSwitch]_vars

\* ------------------------------------------------- the server, one request at a time
HttpConfigs == {Config(2, 1, 2)}

\* main: the manager starts on the leaky bucket
InitHttp ==
    /\ cfg \in {[lb |-> c, tb |-> c] : c \in HttpConfigs}
    /\ clock = StartClock
    /\ store = [n \in EntryNames |-> Absent]
    /\ current = NewLimiterManager("leaky_bucket")
    /\ last = Event("Init", "", TRUE)
    /\ calls = 0
    /\ lastSet = ""
    /\ hist = [alg \in Algs |-> [k \in Keys |-> NoHistory]]
    /\ mu = Unlocked
    /\ procs = [p \in Procs |-> IdleProc]
    /\ resp = NoResponse
    /\ twin = store

NextHttp ==
    \/ calls < MaxServed /\ \E k \in Keys : Request(k)
    \/ calls < MaxServed /\ ListKeys
    \/ \E algorithm \in AlgorithmNames : SetAlgorithmCall(algorithm)
    \/ Tick

SpecHttp == InitHttp /\ [][NextHttp]_vars

\* ------------------------------------- keys that look like entry names
\* client keys with the separator and the suffixes of the entry names in them
KeyTexts == {"a", "a:water", "a:time", "a:tokens"}

\* the keys the clients ask for
AskedKeys == {"a", "a:time"}

NamesConfigs == {Config(4, 2, 0)}

InitNames ==
    /\ cfg \in {[lb |-> c, tb |-> c] : c \in NamesConfigs}
    /\ clock = StartClock
    /\ store = [n \in NamesOf(KeyTexts) |-> Absent]
    /\ current \in {NewLimiterManager(d) : d \in {"leaky_bucket", "token_bucket"}}
    /\ last = Event("Init", "", TRUE)
    /\ calls = 0
    /\ lastSet = ""
    /\ hist = [alg \in Algs |-> [k \in KeyTexts |-> NoHistory]]
    /\ mu = Unlocked
    /\ procs = [p \in Procs |-> IdleProc]
    /\ resp = NoResponse
    /\ twin = store

NextNames ==
    \/ calls < MaxServed /\ \E k \in AskedKeys : Allow(k)
    \/ calls < MaxServed /\ \E k \in AskedKeys : Reset(k)
    \/ calls < MaxServed /\ \E k \in AskedKeys : GetStatus(k)
    \/ Tick

SpecNames == InitNames /\ [][NextNames]_vars

\* ------------------------------ the two limiters given the same calls
\* the same call made on the leaky bucket and then on the token bucket, both
\* whole and with no store operation failing
Both(op, key) ==
    LET l == Run(NewCall("lb", op, key, clock, 0), store, cfg, clock)
        t == Run(NewCall("tb", op, key, clock, 0), l.st, cfg, clock)
    IN  /\ calls < MaxCalls
        /\ calls' = calls + 1
        /\ store' = t.st
        /\ twin' = t.st
        /\ last' = Returned(t.c)
        /\ hist' = [hist EXCEPT !["lb"][key] = HistCall(@, l.c, t.st, clock),
                                !["tb"][key] = HistCall(@, t.c, t.st, clock)]
        /\ UNCHANGED <<resp, cfg, clock, current, lastSet, mu, procs>>

\* equal capacity, rate and ttl, capacity and rate whole numbers
BothConfigs == {c \in Configs : c.capacity % Scale = 0 /\ c.rate % Scale = 0}

InitBoth ==
    /\ cfg \in {[lb |-> c, tb |-> c] : c \in BothConfigs}
    /\ clock = StartClock
    /\ store = [n \in EntryNames |-> Absent]
    /\ current = NewLimiterManager("leaky_bucket")
    /\ last = Event("Init", "", TRUE)
    /\ calls = 0
    /\ lastSet = ""
    /\ hist = [alg \in Algs |-> [k \in Keys |-> NoHistory]]
    /\ mu = Unlocked
    /\ procs = [p \in Procs |-> IdleProc]
    /\ resp = NoResponse
    /\ twin = store

NextBoth ==
    \/ \E k \in Keys : Both("Allow", k)
    \/ \E k \in Keys : Both("Reset", k)
    \/ Tick

SpecBoth == InitBoth /\ [][NextBoth]_vars

\* ------------------------------------------- a wall clock that is set back
\* the wall clock is set back by a second (time.Now() is not monotonic once
\* reduced to Unix seconds); the store keeps what it holds
Regress ==
    /\ clock - TicksPerSec >= StartClock
    /\ clock' = clock - TicksPerSec
    /\ last' = Event("Regress", "", TRUE)
    /\ hist' = [alg \in Algs |-> [k \in DOMAIN hist[alg] |->
                   [hist[alg][k] EXCEPT !.burst = IF Unseen(store, alg, k) THEN 0 ELSE -1,
                                        !.snap = NoSnapshot, !.prevSnap = NoSnapshot]]]
    /\ UNCHANGED <<twin, resp, cfg, store, current, calls, lastSet, mu, procs>>

SkewConfigs == {Config(4, 2, 0)}

InitSkew ==
    /\ cfg \in {[lb |-> c, tb |-> c] : c \in SkewConfigs}
    /\ clock = StartClock
    /\ store = [n \in EntryNames |-> Absent]
    /\ current \in {NewLimiterManager(d) : d \in {"leaky_bucket", "token_bucket"}}
    /\ last = Event("Init", "", TRUE)
    /\ calls = 0
    /\ lastSet = ""
    /\ hist = [alg \in Algs |-> [k \in Keys |-> NoHistory]]
    /\ mu = Unlocked
    /\ procs = [p \in Procs |-> IdleProc]
    /\ resp = NoResponse
    /\ twin = store

NextSkew ==
    \/ \E k \in Keys : Allow(k)
    \/ \E k \in Keys : GetStatus(k)
    \/ Tick
    \/ Regress

SpecSkew == InitSkew /\ [][NextSkew]_vars

\* ------------------------ requests, switches and inquiries, one at a time
\* LimiterManager.GetCurrentAlgorithm, whole: the name returned is kept in last
GetCurrentAlgorithmWhole ==
    /\ CanRLock(mu)
    /\ last' = Event("GetCurrentAlgorithm", current, TRUE)
    /\ UNCHANGED <<twin, resp, cfg, clock, store, current, calls, lastSet, hist, mu, procs>>

\* LimiterManager.GetAlgorithmInfo, whole: the map returned is that of the
\* name kept in last
GetAlgorithmInfoWhole ==
    /\ CanRLock(mu)
    /\ last' = Event("GetAlgorithmInfo", GetAlgorithmInfo(current, cfg).current, TRUE)
    /\ UNCHANGED <<twin, resp, cfg, clock, store, current, calls, lastSet, hist, mu, procs>>

\* main: the manager starts on the leaky bucket
InitFrame ==
    /\ cfg \in {[lb |-> c, tb |-> c] : c \in SwitchConfigs}
    /\ clock = StartClock
    /\ store = [n \in EntryNames |-> Absent]
    /\ current = NewLimiterManager("leaky_bucket")
    /\ last = Event("Init", "", TRUE)
    /\ calls = 0
    /\ lastSet = ""
    /\ hist = [alg \in Algs |-> [k \in Keys |-> NoHistory]]
    /\ mu = Unlocked
    /\ procs = [p \in Procs |-> IdleProc]
    /\ resp = NoResponse
    /\ twin = store

NextFrame ==
    \/ calls < MaxServed /\ \E k \in Keys : Allow(k)
    \/ \E algorithm \in AlgorithmNames : SetAlgorithmCall(algorithm)
    \/ GetCurrentAlgorithmWhole
    \/ GetAlgorithmInfoWhole
    \/ Tick

SpecFrame == InitFrame /\ [][NextFrame]_vars

\* ================================================================ properties
\* the step is a call of op on key under alg that has just returned
Called(op, alg, key) ==
    calls' = calls + 1 /\ last'.op = op /\ last'.alg = alg /\ last'.key = key

\* the numbers a key's entries hold, with the value an absent entry stands for
StoredLevel(st, alg, key, absent) ==
    IF st[ValKey(alg, key)].present THEN ParseFloat(st[ValKey(alg, key)].val) ELSE absent

StoredTime(st, alg, key, absent) ==
    IF st[TimeKey(alg, key)].present THEN ParseInt(st[TimeKey(alg, key)].val) ELSE absent

\* whole seconds from the key's stored last_update to the clock reading
Elapsed(st, alg, key, clk) == Now(clk) - StoredTime(st, alg, key, Now(clk))

\* the key's entries hold the pair (level, now)
Holds(st, alg, key, level, now) ==
    /\ st[ValKey(alg, key)].present /\ st[TimeKey(alg, key)].present
    /\ ParseFloat(st[ValKey(alg, key)].val) = level
    /\ ParseInt(st[TimeKey(alg, key)].val) = now

\* drained = max(water_level - elapsed*rate, 0)
Drained(st, key, cf, clk) ==
    Max(StoredLevel(st, "lb", key, 0) - Elapsed(st, "lb", key, clk) * cf.lb.rate, 0)

\* refilled = min(capacity, tokens + elapsed*rate)
Refilled(st, key, cf, clk) ==
    Min(cf.tb.capacity,
        StoredLevel(st, "tb", key, cf.tb.capacity) + Elapsed(st, "tb", key, clk) * cf.tb.rate)

C2_TokenAdmissionBoundary ==
    [][\A k \in Keys :
        Called("Allow", "tb", k) /\ ~last'.failed =>
            LET refilled == Refilled(store, k, cfg, clock)
            IN  /\ ~last'.err
                /\ last'.allowed <=> ~(refilled < Scale)
                /\ ~last'.allowed => last'.remaining = 0
                /\ last'.allowed =>
                      /\ last'.remaining = refilled - Scale
                      /\ Holds(store', "tb", k, refilled - Scale, Now(clock))]_vars

\* a token bucket denied with a partly refilled token
C2_Witness ==
    /\ last.op = "Allow" /\ last.alg = "tb" /\ ~last.allowed /\ ~last.err
    /\ Elapsed(store, "tb", last.key, clock) > 0
    /\ Refilled(store, last.key, cfg, clock) > 0

IntegerCapacity(cf, alg) == cf[alg].capacity % Scale = 0 /\ cf[alg].capacity >= Scale

\* C3: with integer capacity C >= 1, in a run of LeakyBucket.Allow calls from no
\* stored state with no Reset, expiry, leak or store failure, call number n is
\* admitted with remaining C - n when n <= C and denied with remaining 0 when
\* n > C.
C3_LeakyBurst ==
    \A k \in Keys :
        (last.op = "Allow" /\ last.alg = "lb" /\ last.key = k
         /\ hist["lb"][k].burst >= 1 /\ IntegerCapacity(cfg, "lb")) =>
            LET n == hist["lb"][k].burst
            IN  IF n * Scale <= cfg.lb.capacity
                THEN last.allowed /\ last.remaining = cfg.lb.capacity - n * Scale
                ELSE ~last.allowed /\ last.remaining = 0

\* capacity 2: two calls admitted, the fourth still denied
C3_Witness ==
    /\ last.op = "Allow" /\ last.alg = "lb" /\ ~last.allowed
    /\ cfg.lb.capacity = 2 * Scale
    /\ hist["lb"][last.key].burst = 4

\* C4: the first Allow of a key with no stored entries, capacity >= 1, is
\* admitted with remaining capacity - 1; the leaky bucket stores water level 1,
\* the token bucket capacity - 1 tokens, both with last_update now.
C4_FirstAllow ==
    [][\A k \in Keys : \A alg \in Algs :
        (Called("Allow", alg, k) /\ ~last'.failed /\ Unseen(store, alg, k)
         /\ cfg[alg].capacity >= Scale) =>
            /\ last'.allowed /\ ~last'.err
            /\ last'.remaining = cfg[alg].capacity - Scale
            /\ Holds(store', alg, k,
                     IF alg = "lb" THEN Scale ELSE cfg[alg].capacity - Scale,
                     Now(clock))]_vars

\* a first request admitted by the token bucket with a fractional capacity
C4_Witness ==
    /\ last.op = "Allow" /\ last.alg = "tb" /\ last.allowed
    /\ hist["tb"][last.key].burst = 1
    /\ cfg.tb.capacity % Scale = 1

\* the leak since last_update covers the stored water level, or the refill
\* since last_update fills the bucket
Covered(st, alg, key, cf, clk) ==
    IF alg = "lb"
    THEN Elapsed(st, alg, key, clk) * cf.lb.rate >= StoredLevel(st, alg, key, 0)
    ELSE StoredLevel(st, alg, key, cf.tb.capacity)
            + Elapsed(st, alg, key, clk) * cf.tb.rate >= cf.tb.capacity

\* C5 as stated: with rate > 0 and capacity >= 1, a key that has been denied
\* is admitted with remaining capacity - 1 by the next Allow made at least
\* capacity/rate seconds after its last admitted request (no store operation
\* for the key ever failing).
C5_RecoversAfterCapacityOverRate ==
    [][\A k \in Keys : \A alg \in Algs :
        (Called("Allow", alg, k) /\ ~last'.failed /\ hist[alg][k].clean
         /\ cfg[alg].rate > 0 /\ cfg[alg].capacity >= Scale
         /\ hist[alg][k].deniedAt >= 0 /\ hist[alg][k].admitAt >= 0
         /\ (clock - hist[alg][k].admitAt) * cfg[alg].rate
               >= cfg[alg].capacity * TicksPerSec) =>
            last'.allowed /\ last'.remaining = cfg[alg].capacity - Scale]_vars

\* C5 amended: with rate > 0 and capacity >= 1, a key that has been denied is
\* admitted with remaining capacity - 1 by the next Allow (its store operations
\* succeeding) once the whole seconds elapsed since the stored last_update,
\* times rate, cover the stored water level, or fill the token bucket.
C5_RecoversOnceCovered ==
    [][\A k \in Keys : \A alg \in Algs :
        (Called("Allow", alg, k) /\ ~last'.failed
         /\ cfg[alg].rate > 0 /\ cfg[alg].capacity >= Scale
         /\ hist[alg][k].deniedAt >= 0
         /\ Covered(store, alg, k, cfg, clock)) =>
            last'.allowed /\ last'.remaining = cfg[alg].capacity - Scale]_vars

\* a denied leaky-bucket key admitted again by the leak alone (no expiry)
C5_Witness ==
    /\ last.op = "Allow" /\ last.alg = "lb" /\ last.allowed
    /\ hist["lb"][last.key].recovered
    /\ cfg.lb.ttl = 0
    /\ last.remaining = cfg.lb.capacity - Scale

\* C6 as stated: an Allow that returns an error returns allowed = false and
\* remaining = 0 and leaves the key's stored entries as they were.
C6_ErrorLeavesEntries ==
    [][\A k \in Keys : \A alg \in Algs :
        (Called("Allow", alg, k) /\ last'.err) =>
            /\ ~last'.allowed /\ last'.remaining = 0
            /\ store'[ValKey(alg, k)] = store[ValKey(alg, k)]
            /\ store'[TimeKey(alg, k)] = store[TimeKey(alg, k)]]_vars

\* C7 as stated: a call one of whose store operations failed returns an error.
C7_FailureIsReturned ==
    (last.op \in {"Allow", "Reset", "GetStatus"} /\ last.failed) => last.err

\* C8: a denied Allow writes nothing: every entry and its expiry time is as
\* it was before the call.
C8_DeniedWritesNothing ==
    [][\A k \in Keys : \A alg \in Algs :
        (Called("Allow", alg, k) /\ ~last'.allowed /\ ~last'.err) =>
            store' = store]_vars

\* a denial of a key whose entries carry an expiry time
C8_Witness ==
    /\ last.op = "Allow" /\ ~last.allowed /\ ~last.err
    /\ store[ValKey(last.alg, last.key)].present
    /\ store[ValKey(last.alg, last.key)].exp > 0

\* C9: Reset returns an error only when a store operation failed, also for a
\* key with no stored state; an error-free Reset leaves the key without
\* entries, a second one changes nothing, and the next Allow (capacity >= 1)
\* is admitted with remaining capacity - 1.
C9_ResetIdempotent ==
    [][\A k \in Keys : \A alg \in Algs :
        /\ Called("Reset", alg, k) =>
              /\ last'.err <=> last'.failed
              /\ ~last'.err => Unseen(store', alg, k)
              /\ (~last'.err /\ hist[alg][k].resets >= 1) => store' = store
        /\ (Called("Allow", alg, k) /\ ~last'.failed /\ hist[alg][k].resets >= 1
            /\ cfg[alg].capacity >= Scale) =>
              last'.allowed /\ last'.remaining = cfg[alg].capacity - Scale]_vars

\* a key filled by an admitted Allow, reset twice in a row and admitted again
\* at once, with no expiry and nothing leaked in between
C9_Witness ==
    /\ last.op = "Allow" /\ last.allowed
    /\ hist[last.alg][last.key].afterResets = 2
    /\ hist[last.alg][last.key].admits = 2
    /\ last.remaining = cfg[last.alg].capacity - Scale
    /\ cfg[last.alg].capacity = Scale /\ cfg[last.alg].ttl = 0
    /\ calls = 4 /\ clock = StartClock

\* C10: a GetCurrentAlgorithm that has returned gave the name current held when
\* the call began or the name of a switch in progress during the call; and when
\* a SetAlgorithm(n) had returned true with no other switch in progress since
\* it began, and none during the call, it gave n.
C10_SwitchAtomic ==
    \A p \in Procs :
        (procs[p].op = "GetCurrentAlgorithm" /\ procs[p].pc = "idle") =>
            /\ procs[p].ret \in procs[p].accept
            /\ (procs[p].expect # "" /\ ~procs[p].overlap) =>
                   procs[p].ret = procs[p].expect

\* one goroutine has read the new name while the switch to it was still in
\* progress, and the other, which made the switch, has read it afterwards
C10_Witness ==
    /\ procs[1].op = "GetCurrentAlgorithm" /\ procs[1].pc = "idle"
    /\ procs[1].expect = "token_bucket" /\ ~procs[1].overlap
    /\ procs[1].ret = "token_bucket"
    /\ procs[2].op = "GetCurrentAlgorithm" /\ procs[2].pc = "idle"
    /\ procs[2].overlap /\ procs[2].expect = ""
    /\ procs[2].accept = {"leaky_bucket", "token_bucket"}
    /\ procs[2].ret = "token_bucket"

\* the limiter a valid name stands for
LimiterOf(name) == IF name = "token_bucket" THEN "tb" ELSE "lb"

\* C11: a manager Allow, Reset or GetStatus made after SetAlgorithm(n) returned
\* true, with no switch since, runs on n's limiter: the other limiter's entries
\* stay as they were, and the results and the store are those of n's own call
\* on the same store at the same time.
C11_DelegatesToSwitched ==
    [][\A k \in Keys : \A op \in {"Allow", "Reset", "GetStatus"} :
        (calls' = calls + 1 /\ last'.op = op /\ last'.key = k /\ lastSet # "") =>
            LET alg == LimiterOf(lastSet)
            IN  /\ last'.alg = alg
                /\ store'[ValKey(OtherAlg(alg), k)] = store[ValKey(OtherAlg(alg), k)]
                /\ store'[TimeKey(OtherAlg(alg), k)] = store[TimeKey(OtherAlg(alg), k)]
                /\ \E f \in 0..MaxStoreOps(op) :
                       LET r == Run(NewCall(alg, op, k, clock, f), store, cfg, clock)
                       IN  store' = r.st /\ last' = Returned(r.c)]_vars

\* a token-bucket Allow after a switch away from a leaky bucket already in use
C11_Witness ==
    /\ last.op = "Allow" /\ last.alg = "tb" /\ last.allowed
    /\ lastSet = "token_bucket"
    /\ \E k \in Keys : store[LBWaterKey(k)].present /\ store[TBTokensKey(k)].present

RecognizedNames == {"leaky_bucket", "token_bucket"}

\* C12: a SetAlgorithm with a name other than "leaky_bucket" and "token_bucket"
\* returns false at once: it takes no lock and the active algorithm is what it
\* was.
C12_InvalidNameRejected ==
    [][\A p \in Procs :
        (procs[p].pc = "idle" /\ procs'[p] # procs[p]
         /\ procs'[p].op = "SetAlgorithm" /\ procs'[p].arg \notin RecognizedNames) =>
            /\ procs'[p].pc = "idle" /\ procs'[p].ret = "false"
            /\ last' = Event("SetAlgorithm", procs'[p].arg, FALSE)
            /\ current' = current /\ mu' = mu /\ lastSet' = lastSet]_vars

\* an unknown name refused after a switch to the token bucket, which stays
C12_Witness ==
    /\ last = Event("SetAlgorithm", "sliding_window", FALSE)
    /\ current = "token_bucket" /\ lastSet = "token_bucket"
    /\ \E p \in Procs : procs[p].op = "SetAlgorithm" /\ procs[p].ret = "false"

\* C13 as stated: the active algorithm name is "leaky_bucket" or
\* "token_bucket" in every state, from construction on.
C13_TwoValues == current \in RecognizedNames

\* C14: an Allow in flight stays with the limiter resolved when it began,
\* whatever the manager is switched to meanwhile: the limiter is the one
\* m.current named at the resolution, each read takes the value of that
\* limiter's entry for the key, each write changes only that limiter's entries
\* for the key, and the call returns as that limiter's.
C14_NotRedirected ==
    [][\A p \in Procs :
        LET alg == procs'[p].resolved
            k   == procs[p].arg
            c   == procs[p].call
            d   == procs'[p].call
        IN  /\ (procs[p].pc = "resolve" /\ procs'[p].pc = "run") =>
                   alg = LimiterOf(current)
            /\ (procs[p].pc = "run" /\ d # c) =>
                   /\ alg = procs[p].resolved
                   /\ \A n \in EntryNames \ {ValKey(alg, k), TimeKey(alg, k)} :
                          store'[n] = store[n]
                   /\ c.pc = "getVal" =>
                          /\ d.exists = store[ValKey(alg, k)].present
                          /\ d.exists => d.val = ParseFloat(store[ValKey(alg, k)].val)
                   /\ (c.pc = "getTime" /\ store[TimeKey(alg, k)].present) =>
                          d.lastTime = ParseInt(store[TimeKey(alg, k)].val)
                   /\ c.pc = "setVal" => store'[ValKey(alg, k)].present
                   /\ c.pc = "setTime" => store'[TimeKey(alg, k)].present
                   /\ procs'[p].pc = "idle" => last'.alg = alg]_vars

\* a leaky-bucket Allow that had made its two reads when the manager was
\* switched to the token bucket, and then wrote and returned as the leaky
\* bucket's, no token-bucket entry touched
C14_Witness ==
    \E p \in Procs :
        /\ procs[p].op = "Allow" /\ procs[p].pc = "idle"
        /\ procs[p].resolved = "lb" /\ procs[p].switchedAt = 2
        /\ procs[p].call.allowed
        /\ current = "token_bucket"
        /\ store[LBTimeKey(procs[p].arg)].present
        /\ ~store[TBTokensKey(procs[p].arg)].present
        /\ calls = 1

Quiet == \A p \in Procs : procs[p].pc \notin {"resolve", "run"}

\* the consumption the store records for a key, in requests
Recorded(st, alg, key, cf) ==
    IF alg = "lb" THEN StoredLevel(st, "lb", key, 0)
    ELSE cf.tb.capacity - StoredLevel(st, "tb", key, cf.tb.capacity)

\* C15: Allow calls that overlap can lose consumption: with no call in flight,
\* no time passed and no Reset, the store records at least one request once
\* one was admitted, and never more requests than were admitted (it may
\* record fewer).
C15_RecordsAtMostAdmitted ==
    \A alg \in Algs : \A k \in Keys :
        Quiet =>
            /\ hist[alg][k].admits >= 1 => Recorded(store, alg, k, cfg) >= Scale
            /\ Recorded(store, alg, k, cfg) <= hist[alg][k].admits * Scale

\* capacity 2: three Allow calls admitted, the last two having both read the
\* level 1, and the store records two requests
C15_Witness ==
    \E k \in Keys :
        /\ Quiet
        /\ cfg.lb.capacity = 2 * Scale
        /\ hist["lb"][k].admits = 3
        /\ Recorded(store, "lb", k, cfg) = 2 * Scale
        /\ \A p \in Procs : procs[p].op = "Allow" /\ procs[p].resolved = "lb"
                            /\ procs[p].call.allowed /\ procs[p].call.level = Scale
        /\ calls = 3

\* the last call returned a status snapshot
Snapshot(alg) == last.op = "GetStatus" /\ last.alg = alg /\ ~last.err

\* C16 as stated: every snapshot has current + remaining = capacity, current
\* and remaining not negative.
C16_SnapshotSum ==
    \A alg \in Algs :
        Snapshot(alg) =>
            /\ last.usage + last.remaining = cfg[alg].capacity
            /\ last.usage >= 0 /\ last.remaining >= 0

\* C17 as stated: every snapshot has is_limited exactly when remaining < 1.
C17_LimitedIffBelowOne ==
    \A alg \in Algs : Snapshot(alg) => (last.isLimited <=> last.remaining < Scale)

\* C17 amended: a token-bucket snapshot has is_limited exactly when remaining
\* < 1; a leaky-bucket snapshot has is_limited exactly when current >= capacity,
\* which is when remaining = 0.
C17_LimitedIffNextDenied ==
    /\ Snapshot("tb") => (last.isLimited <=> last.remaining < Scale)
    /\ Snapshot("lb") =>
          /\ last.isLimited <=> last.usage >= cfg.lb.capacity
          /\ last.isLimited <=> last.remaining = 0

\* a leaky bucket with half a request of room left: not limited
C17_Witness ==
    /\ Snapshot("lb") /\ ~last.isLimited
    /\ last.remaining > 0 /\ last.remaining < Scale

\* C18 as stated: every stored water level and every stored token count is in
\* [0, capacity], and an admitted Allow never returns a negative remaining.
C18_LevelsWithinCapacity ==
    /\ \A k \in Keys : \A alg \in Algs :
          store[ValKey(alg, k)].present =>
              /\ ParseFloat(store[ValKey(alg, k)].val) >= 0
              /\ ParseFloat(store[ValKey(alg, k)].val) <= cfg[alg].capacity
    /\ (last.op = "Allow" /\ last.allowed) => last.remaining >= 0

\* C19: the remaining value of a TokenBucket.GetStatus snapshot and of a
\* TokenBucket.Allow never exceeds capacity.
C19_TokensAtMostCapacity ==
    (last.alg = "tb" /\ last.op \in {"Allow", "GetStatus"}) =>
        last.remaining <= cfg.tb.capacity

\* a snapshot taken a second after the key's only Allow, the refill of that
\* second more than the bucket has room for
C19_Witness ==
    /\ Snapshot("tb") /\ calls = 2
    /\ hist["tb"][last.key].admits = 1
    /\ Now(clock) - Now(hist["tb"][last.key].admitAt) = 1
    /\ cfg.tb.capacity - Scale + cfg.tb.rate > cfg.tb.capacity
    /\ last.remaining = cfg.tb.capacity

\* the key's entries, written at tick t with the limiter's ttl, have expired
Expired(cf, alg, t, clk) == cf[alg].ttl > 0 /\ clk >= t + cf[alg].ttl * TicksPerSec

\* C20 as stated: a key filled to L0 at t0 (by an admitted Allow, no Allow or
\* Reset since) has LeakyBucket.GetStatus at t0 + D report
\* current = max(L0 - D*rate, 0), D the time passed, whatever rate and ttl.
C20_DecayInRealTime ==
    [][\A k \in Keys :
        (Called("GetStatus", "lb", k) /\ ~last'.failed /\ hist["lb"][k].fill >= 0) =>
            last'.usage * TicksPerSec =
                Max(hist["lb"][k].fill * TicksPerSec
                       - (clock - hist["lb"][k].admitAt) * cfg.lb.rate, 0)]_vars

\* C20 amended: such a GetStatus reports current = max(L0 - D*rate, 0) with D
\* the whole seconds between the Unix clock readings at t0 and at the call,
\* as long as the key's entries have not expired; once they have, it reports 0.
C20_DecayInWholeSeconds ==
    [][\A k \in Keys :
        (Called("GetStatus", "lb", k) /\ ~last'.failed /\ hist["lb"][k].fill >= 0) =>
            last'.usage =
                IF Expired(cfg, "lb", hist["lb"][k].admitAt, clock) THEN 0
                ELSE Max(hist["lb"][k].fill
                            - (Now(clock) - Now(hist["lb"][k].admitAt)) * cfg.lb.rate, 0)]_vars

\* a level of 1 seen half leaked a second later
C20_Witness ==
    /\ Snapshot("lb")
    /\ hist["lb"][last.key].fill = Scale
    /\ last.usage = 1
    /\ Now(clock) - Now(hist["lb"][last.key].admitAt) = 1

\* C21 as stated: with rate = 0, a key that an Allow has denied is denied by
\* every later Allow until a Reset is called for it, whatever the ttl.
C21_DeniedUntilReset ==
    [][\A k \in Keys : \A alg \in Algs :
        (Called("Allow", alg, k) /\ cfg[alg].rate = 0 /\ hist[alg][k].deniedAt >= 0) =>
            ~last'.allowed]_vars

\* C21 amended: with rate = 0, a key that an Allow has denied is denied by
\* every later Allow until a Reset is called for it or its entries expire;
\* with ttl = 0 they never do.
C21_DeniedWhileStored ==
    [][\A k \in Keys : \A alg \in Algs :
        (Called("Allow", alg, k) /\ cfg[alg].rate = 0 /\ hist[alg][k].deniedAt >= 0
         /\ (cfg[alg].ttl = 0 \/ store[ValKey(alg, k)].present)) =>
            ~last'.allowed]_vars

\* a key denied again, its store operations succeeding, more than a second
\* after its first denial
C21_Witness ==
    \E alg \in Algs :
        /\ last.op = "Allow" /\ last.alg = alg /\ ~last.allowed /\ ~last.failed
        /\ cfg[alg].rate = 0
        /\ hist[alg][last.key].deniedAt >= 0
        /\ clock - hist[alg][last.key].deniedAt > TicksPerSec

\* C22: LeakyBucket.GetStatus writes and deletes nothing: every entry and its
\* expiry time is after the call what it was before, whether the call returns
\* a snapshot or an error.
C22_LeakyStatusReadOnly ==
    [][\A k \in Keys : Called("GetStatus", "lb", k) => store' = store]_vars

\* a snapshot that reports less water than the entry holds, the entry carrying
\* an expiry time
C22_Witness ==
    /\ Snapshot("lb")
    /\ store[LBWaterKey(last.key)].present /\ store[LBWaterKey(last.key)].exp > 0
    /\ last.usage < ParseFloat(store[LBWaterKey(last.key)].val)

\* the last step was a request through the middleware
Requested == last.op = "Allow" /\ resp.id = calls

\* C23: the handler behind the middleware runs exactly when Allow returned
\* allowed = true and no error; an Allow error is answered 500, never 429, and
\* aborts, with no remaining header; a denial without error is answered by the
\* deny handler (429 by default) with the remaining header set to the
\* remaining value Allow returned.
C23_MiddlewareOutcome ==
    Requested =>
        /\ resp.downstream <=> (last.allowed /\ ~last.err)
        /\ last.err =>
              resp.status = 500 /\ resp.aborted /\ ~resp.next /\ ~resp.hasHeader
        /\ (~last.err /\ ~last.allowed) =>
              /\ resp.status \in {429, 403} /\ resp.aborted /\ ~resp.next
              /\ resp.hasHeader /\ resp.header = FormatFloat(last.remaining)
        /\ (~last.err /\ last.allowed) =>
              resp.status = 200 /\ resp.next /\ resp.hasHeader

\* the three answers: a request let through, one denied by the default
\* handler, one failed at a store write
C23_Witness ==
    /\ Requested /\ ~last.err /\ ~last.allowed
    /\ resp.status = 429 /\ resp.header = <<"0">>
    /\ hist[last.alg][last.key].admits >= 1
    /\ ~hist[last.alg][last.key].clean

\* the entry as a Set with the limiter's ttl at tick clk leaves it
Written(text, cf, alg, clk) ==
    [present |-> TRUE, val |-> text,
     exp |-> IF cf[alg].ttl = 0 THEN 0 ELSE clk + cf[alg].ttl * TicksPerSec]

\* C24: a TokenBucket.GetStatus whose store operations succeed writes the pair
\* (min(capacity, tokens + elapsed*rate), now), with the configured ttl, when
\* the key's token entry existed and elapsed > 0, and writes nothing when the
\* entry was absent or elapsed = 0.
C24_StatusSavesRefill ==
    [][\A k \in Keys :
        (Called("GetStatus", "tb", k) /\ ~last'.failed) =>
            IF store[TBTokensKey(k)].present /\ Elapsed(store, "tb", k, clock) > 0
            THEN store' = [store EXCEPT
                     ![TBTokensKey(k)] =
                         Written(FormatFloat(Refilled(store, k, cfg, clock)), cfg, "tb", clock),
                     ![TBTimeKey(k)] =
                         Written(FormatInt(Now(clock)), cfg, "tb", clock)]
            ELSE store' = store]_vars

\* a snapshot taken a second after the key's only Allow has saved the refilled
\* count and the time of the snapshot
C24_Witness ==
    /\ Snapshot("tb") /\ ~last.failed /\ calls = 2
    /\ hist["tb"][last.key].admits = 1
    /\ Now(clock) > Now(hist["tb"][last.key].admitAt)
    /\ cfg.tb.rate > 0
    /\ Holds(store, "tb", last.key, last.remaining, Now(clock))
    /\ last.remaining > cfg.tb.capacity - Scale

\* the label GetAlgorithmInfo gives a limiter's rate
RateName(alg) == IF alg = "tb" THEN "refill_rate" ELSE "leak_rate"

\* C25 as stated: the capacity, the rate and the rate label GetAlgorithmInfo
\* returns are those of the limiter GetActiveLimiter hands out for the value
\* of m.current it read, in every reachable manager state.
C25_InfoOfActiveLimiter ==
    \A p \in Procs :
        (procs[p].op = "GetAlgorithmInfo" /\ procs[p].pc = "idle") =>
            LET alg == GetActiveLimiter(procs[p].info.current)
            IN  /\ procs[p].info.capacity = cfg[alg].capacity
                /\ procs[p].info.rate = cfg[alg].rate
                /\ procs[p].info.rate_name = RateName(alg)

\* goroutine q is inside a Reset of key under alg that has deleted the value
\* entry and not yet the time entry
HalfReset(q, alg, key) ==
    /\ InCall(procs[q]) /\ procs[q].op = "Reset"
    /\ procs[q].resolved = alg /\ procs[q].arg = key
    /\ procs[q].call.pc = "delTime"
    /\ ~store[ValKey(alg, key)].present /\ store[TimeKey(alg, key)].present

\* goroutine p, inside an Allow or a GetStatus of key under alg, reads an entry
Reads(p, alg, key) ==
    /\ InCall(procs[p]) /\ procs[p].op \in {"Allow", "GetStatus"}
    /\ procs[p].resolved = alg /\ procs[p].arg = key
    /\ procs[p].call.pc \in {"getVal", "getTime"}
    /\ procs'[p].call # procs[p].call

\* C26 as stated: no Allow or GetStatus reads an entry of a key while a Reset
\* of that key has deleted one of its two entries and not the other.
C26_ResetAtomic ==
    [][\A p \in Procs : \A q \in Procs \ {p} : \A alg \in Algs : \A k \in Keys :
        ~(HalfReset(q, alg, k) /\ Reads(p, alg, k))]_vars

\* C27 as stated: whenever no call is in flight, the two entries of a key are
\* both stored or both absent.
C27_SharedLifecycle ==
    Quiet =>
        \A alg \in Algs : \A k \in Keys :
            store[ValKey(alg, k)].present <=> store[TimeKey(alg, k)].present

\* the entries an admitted Allow wrote at tick h.admitAt, nothing written
\* since, are both stored until ttl seconds have passed and both gone from
\* then on; with ttl = 0 they stay
StoredUntilExpiry(st, h, cf, alg, key, clk) ==
    h.fill >= 0 =>
        IF Expired(cf, alg, h.admitAt, clk)
        THEN Unseen(st, alg, key)
        ELSE st[ValKey(alg, key)].present /\ st[TimeKey(alg, key)].present

\* C28: every entry an Allow or a GetStatus writes gets the configured ttl
\* (no expiry when ttl = 0); after an admitted Allow at t and no later write
\* both entries are stored before t + ttl and gone from t + ttl on, and the
\* next Allow then treats the key as unseen; with ttl = 0 they never expire.
C28_WritesSetTTL ==
    [][\A k \in Keys : \A alg \in Algs :
        /\ (Called("Allow", alg, k) \/ Called("GetStatus", alg, k)) =>
              \A n \in {ValKey(alg, k), TimeKey(alg, k)} :
                  store'[n] # store[n] =>
                      /\ store'[n].present
                      /\ store'[n].exp = IF cfg[alg].ttl = 0 THEN 0
                                         ELSE clock + cfg[alg].ttl * TicksPerSec
        /\ StoredUntilExpiry(store', hist'[alg][k], cfg, alg, k, clock')
        /\ (Called("Allow", alg, k) /\ ~last'.failed /\ hist[alg][k].fill >= 0
            /\ Expired(cfg, alg, hist[alg][k].admitAt, clock)
            /\ cfg[alg].capacity >= Scale) =>
              last'.allowed /\ last'.remaining = cfg[alg].capacity - Scale]_vars

\* a bucket that does not leak, filled by an admitted Allow, found empty by a
\* snapshot taken once the ttl has passed
C28_Witness ==
    /\ Snapshot("lb") /\ ~last.failed
    /\ cfg.lb.rate = 0 /\ cfg.lb.ttl > 0
    /\ hist["lb"][last.key].fill >= Scale
    /\ Expired(cfg, "lb", hist["lb"][last.key].admitAt, clock)
    /\ Unseen(store, "lb", last.key)
    /\ last.usage = 0

\* the error strconv.ParseInt(s, 10, 64) returns for the texts met here
ParseIntErr(s) == IF AllDigits(Unsigned(s)) THEN "" ELSE "syntax"

Zero == [present |-> TRUE, val |-> <<"0">>, exp |-> 0]

\* the store with 0 in place of every entry of the key that fails to parse
ZeroedAll(st, alg, key) ==
    [st EXCEPT
        ![ValKey(alg, key)] =
            IF @.present /\ ParseFloatErr(@.val) # "" THEN Zero ELSE @,
        ![TimeKey(alg, key)] =
            IF @.present /\ ParseIntErr(@.val) # "" THEN Zero ELSE @]

\* the store with 0 in place of every entry of the key that is no number
ZeroedSyntax(st, alg, key) ==
    [st EXCEPT
        ![ValKey(alg, key)] =
            IF @.present /\ ParseFloatErr(@.val) = "syntax" THEN Zero ELSE @,
        ![TimeKey(alg, key)] =
            IF @.present /\ ParseIntErr(@.val) = "syntax" THEN Zero ELSE @]

\* an entry of the key fails to parse
Malformed(st, alg, key) == ZeroedAll(st, alg, key) # st

\* the step returns and writes what the call returns and writes on store st0
SameAsOn(st0, op, alg, key) ==
    LET r == Run(NewCall(alg, op, key, clock, 0), st0, cfg, clock)
    IN  /\ last' = Returned(r.c)
        /\ IF r.st = st0 THEN store' = store
           ELSE /\ store'[ValKey(alg, key)] = r.st[ValKey(alg, key)]
                /\ store'[TimeKey(alg, key)] = r.st[TimeKey(alg, key)]

\* C29 as stated: an Allow or a GetStatus that meets an entry that fails to
\* parse returns no error (its store operations succeeding) and returns and
\* writes what it would with 0 in that entry's place.
C29_MalformedAsZero ==
    [][\A k \in Keys : \A alg \in Algs : \A op \in {"Allow", "GetStatus"} :
        (Called(op, alg, k) /\ ~last'.failed /\ Malformed(store, alg, k)) =>
            ~last'.err /\ SameAsOn(ZeroedAll(store, alg, k), op, alg, k)]_vars

\* what does hold: such a call returns no error; an entry that is no number
\* is treated as 0; a value entry holding a number too large for float64 is
\* treated as +Inf: the leaky bucket denies, the token bucket starts from a
\* full bucket.
C29_NoNumberAsZero ==
    [][\A k \in Keys : \A alg \in Algs : \A op \in {"Allow", "GetStatus"} :
        (Called(op, alg, k) /\ ~last'.failed /\ Malformed(store, alg, k)) =>
            /\ ~last'.err
            /\ SameAsOn(ZeroedSyntax(store, alg, k), op, alg, k)
            /\ (op = "Allow" /\ ParseFloatErr(store[ValKey(alg, k)].val) = "range") =>
                  IF alg = "lb" THEN ~last'.allowed /\ last'.remaining = 0
                  ELSE last'.allowed /\ last'.remaining = cfg.tb.capacity - Scale]_vars

\* a level of 1 with a last_update that is no number: the snapshot counts the
\* leak from second 0 and reports an empty bucket
C29_Witness ==
    /\ Snapshot("lb") /\ ~last.failed /\ calls = 1
    /\ store[LBWaterKey(last.key)].val = <<"1">>
    /\ store[LBTimeKey(last.key)].val = <<"a", "b", "c">>
    /\ cfg.lb.rate > 0
    /\ last.usage = 0

\* the keys the response lists
Listed(w) == {w.keys[i].key : i \in 1..Len(w.keys)}

\* C30 as stated: a key listing (no store operation failing) has one status
\* for exactly the keys that have stored state under the active algorithm,
\* each the active algorithm's status of the key.
C30_ListsActiveKeys ==
    [][(calls' = calls + 1 /\ last'.op = "ListKeys" /\ last'.allowed) =>
          LET alg == GetActiveLimiter(current)
          IN  /\ resp'.status = 200
              /\ Len(resp'.keys) = Cardinality(Listed(resp'))
              /\ Listed(resp') = {k \in Keys : store[ValKey(alg, k)].present}
              /\ \A i \in 1..Len(resp'.keys) :
                    resp'.keys[i] =
                        StatusOf(Run(NewCall(alg, "GetStatus", resp'.keys[i].key, clock, 0),
                                     store, cfg, clock).c, cfg)]_vars

IntegerRate(cf, alg) == cf[alg].rate % Scale = 0

NameOf(triple) ==
    IF triple[3] = "time" THEN TimeKey(triple[1], triple[2])
    ELSE ValKey(triple[1], triple[2])

Triples == Algs \X KeyTexts \X {"value", "time"}

Names == [t \in Triples |-> NameOf(t)]

DistinctNames == \A t \in Triples : \A u \in Triples : Names[t] = Names[u] => t = u

\* C32: distinct (algorithm, key, field) triples have distinct entry names,
\* also for keys that contain ':' or end in a suffix of the names, and an
\* Allow, Reset or GetStatus call for a key under one algorithm leaves every
\* entry of another key and of the other algorithm as it was.
C32_OwnEntriesOnly ==
    [][/\ DistinctNames
       /\ \A alg \in Algs : \A k \in KeyTexts :
              calls' = calls + 1 /\ last'.alg = alg /\ last'.key = k =>
                  \A t \in Triples :
                      t[1] # alg \/ t[2] # k => store'[Names[t]] = store[Names[t]]]_vars

\* the leaky bucket has admitted the key "a" and then the key "a:time", and
\* a Reset of "a:time" has returned: the two entries of "a" are still there
C32_Witness ==
    /\ last.op = "Reset" /\ last.alg = "lb" /\ last.key = "a:time" /\ ~last.err
    /\ hist["lb"]["a"].admits = 1 /\ hist["lb"]["a:time"].admits = 1
    /\ store[LBWaterKey("a")].present /\ store[LBTimeKey("a")].present
    /\ ~store[LBWaterKey("a:time")].present /\ ~store[LBTimeKey("a:time")].present

\* the last call was an Allow for the key that came right after a GetStatus
\* for it, at the same clock reading, no store operation of either failing
AllowAfterStatus(alg, key) ==
    /\ last.op = "Allow" /\ last.alg = alg /\ last.key = key /\ ~last.failed
    /\ hist[alg][key].prevSnap.taken

\* C33: GetStatus(key).is_limited is true exactly when the Allow(key) that
\* follows it at once is denied, and when it is false that Allow returns
\* remaining = status.remaining - 1; for both algorithms, whatever the store
\* holds for the key.
C33_StatusForetellsAllow ==
    \A alg \in Algs : \A k \in Keys :
        AllowAfterStatus(alg, k) =>
            LET status == hist[alg][k].prevSnap
            IN  /\ status.isLimited <=> ~last.allowed
                /\ ~status.isLimited => last.remaining = status.remaining - Scale

\* a value entry with a number too large for float64: the leaky bucket is
\* reported limited and the Allow after it is denied
C33_Witness ==
    \E k \in Keys :
        /\ AllowAfterStatus("lb", k)
        /\ hist["lb"][k].prevSnap.isLimited /\ ~last.allowed
        /\ ParseFloatErr(store[LBWaterKey(k)].val) = "range"

\* C34: a TokenBucket.GetStatus that overlaps Allow calls never undoes their
\* consumption.  With Allow calls one after the other, no refill (rate 0), no
\* expiry and no failing store operation, the token count without the
\* GetStatus calls is capacity less the requests admitted; with them, once
\* every call has returned, the stored count is no larger.
C34_StatusKeepsConsumption ==
    \A k \in Keys :
        Quiet /\ hist["tb"][k].clean =>
            StoredLevel(store, "tb", k, cfg.tb.capacity)
                <= cfg.tb.capacity - hist["tb"][k].admits * Scale

\* C35: with calls one after the other and none of their store operations
\* failing, TokenBucket.GetStatus calls put between the Allow calls change
\* neither the decision nor the remaining value of any later Allow, whatever
\* the capacity, the rate and the ttl: every Allow returns what it returns on
\* the store the same calls and ticks make without the GetStatus calls.
C35_StatusChangesNoAllow ==
    [][\A k \in Keys :
        Called("Allow", "tb", k) /\ hist'["tb"][k].clean =>
            LET t == Run(NewCall("tb", "Allow", k, clock, 0), twin, cfg, clock).c
            IN  /\ last'.allowed = t.allowed
                /\ last'.remaining = t.remaining]_vars

\* what does hold: with ttl = 0 the GetStatus calls change no later Allow
C35_NoExpiryNoChange ==
    [][\A k \in Keys :
        Called("Allow", "tb", k) /\ hist'["tb"][k].clean /\ cfg.tb.ttl = 0 =>
            LET t == Run(NewCall("tb", "Allow", k, clock, 0), twin, cfg, clock).c
            IN  /\ last'.allowed = t.allowed
                /\ last'.remaining = t.remaining]_vars

\* the Allow calls in flight for the key under the algorithm
AllowsInFlight(alg, key) ==
    {p \in Procs : /\ procs[p].op = "Allow" /\ procs[p].arg = key
                   /\ procs[p].pc \in {"resolve", "run"}
                   /\ procs[p].pc = "run" => procs[p].resolved = alg}

\* C36: once a Reset of the key has returned without error, the key has no
\* stored state under that algorithm until an Allow that starts after the
\* Reset writes it; here: the Reset is the last call returned for the key and
\* every Allow in flight for it began before the Reset returned.
C36_ResetHolds ==
    \A alg \in Algs : \A k \in Keys :
        /\ hist[alg][k].resets > 0
        /\ \A p \in AllowsInFlight(alg, k) : procs[p].stale
        => Unseen(store, alg, k)

\* the latest call the manager made for the key was a Reset that returned
\* without error
ResetLast(key) ==
    \E a \in Algs : hist[a][key].resets > 0 /\ ~hist[a][key].elsewhere

\* C37: after Manager.Reset(key) has returned without error, the next
\* Manager.Allow(key), its store operations succeeding, is admitted with
\* remaining = capacity - 1 (capacity >= 1), whatever SetAlgorithm calls come
\* between the two.
C37_AllowAfterReset ==
    [][\A alg \in Algs : \A k \in Keys :
        /\ Called("Allow", alg, k) /\ ~last'.failed
        /\ ResetLast(k)
        /\ cfg[alg].capacity >= Scale
        => /\ last'.allowed
           /\ last'.remaining = cfg[alg].capacity - Scale]_vars

\* C38: with equal whole capacity, equal whole rate and equal ttl, the two
\* limiters given the same Allow calls, Reset calls and clock advances from an
\* empty store return the same (allowed, remaining) for every Allow, and after
\* every step the stored tokens are capacity less the stored water level (an
\* absent entry standing for a full token bucket and an empty leaky bucket).
C38_BucketsAgree ==
    [][\A k \in Keys :
        /\ StoredLevel(store', "tb", k, cfg.tb.capacity)
              = cfg.tb.capacity - StoredLevel(store', "lb", k, 0)
        /\ Called("Allow", "tb", k) =>
              LET l == Run(NewCall("lb", "Allow", k, clock, 0), store, cfg, clock).c
              IN  /\ last'.allowed = l.allowed
                  /\ last'.remaining = l.remaining]_vars

\* capacity 2, one request a second, ttl 2 s: both limiters have admitted
\* two requests, denied one and, a second later, admitted a third
C38_Witness ==
    \E k \in Keys :
        /\ cfg.lb = Config(2 * Scale, Scale, 2) /\ cfg.tb = cfg.lb
        /\ hist["lb"][k].admits = 3 /\ hist["tb"][k].admits = 3
        /\ hist["lb"][k].recovered /\ hist["tb"][k].recovered
        /\ calls = 4
        /\ last.op = "Allow" /\ last.allowed /\ last.remaining = 0
        /\ StoredLevel(store, "lb", k, 0) = 2 * Scale
        /\ StoredLevel(store, "tb", k, cfg.tb.capacity) = 0

\* C39: an Allow whose clock reading is earlier than the key's stored
\* last_update decides and reports as if elapsed were 0: the time step adds no
\* water and takes no token.
C39_RegressionAsZero ==
    [][\A alg \in Algs : \A k \in Keys :
        /\ Called("Allow", alg, k) /\ ~last'.failed
        /\ Elapsed(store, alg, k, clock) < 0
        => LET cap == cfg[alg].capacity
               v   == StoredLevel(store, alg, k, IF alg = "tb" THEN cap ELSE 0)
           IN  IF alg = "lb"
               THEN /\ last'.allowed <=> v < cap
                    /\ last'.allowed => last'.remaining = cap - (v + Scale)
               ELSE /\ last'.allowed <=> v >= Scale
                    /\ last'.allowed => last'.remaining = v - Scale]_vars

\* the methods of the manager that are no limiter calls, as last records them
ManagerMethods == {"SetAlgorithm", "GetCurrentAlgorithm", "GetAlgorithmInfo"}

\* C40: SetAlgorithm, GetCurrentAlgorithm, GetActiveLimiter and
\* GetAlgorithmInfo never touch the store: no step of theirs changes an entry,
\* and whatever switches and calls under the other algorithm come in between,
\* a key keeps under each algorithm the pair its last admitted Allow stored
\* there, until that pair expires or a call under that algorithm replaces it.
C40_SwitchKeepsStore ==
    [][/\ last'.op \in ManagerMethods => store' = store
       /\ \A alg \in Algs : \A k \in Keys :
              LET h == hist'[alg][k]
              IN  h.fill >= 0 /\ ~Expired(cfg, alg, h.admitAt, clock')
                  => Holds(store', alg, k, h.fill, Now(h.admitAt))]_vars

\* the leaky bucket admitted a request, the manager was switched to the token
\* bucket, which admitted one later, switched back and asked for its
\* configuration: the leaky pair is still there
C40_Witness ==
    \E k \in Keys :
        /\ current = "leaky_bucket" /\ lastSet = "leaky_bucket"
        /\ last.op = "GetAlgorithmInfo"
        /\ hist["lb"][k].admits = 1 /\ hist["tb"][k].admits = 1
        /\ hist["lb"][k].admitAt < hist["tb"][k].admitAt
        /\ Holds(store, "lb", k, hist["lb"][k].fill, Now(hist["lb"][k].admitAt))
        /\ Holds(store, "tb", k, hist["tb"][k].fill, Now(hist["tb"][k].admitAt))

====
